---- MODULE Spec2Model ----
(***************************************************************************)
(* Connection orchestration, BLE transport and driver notification         *)
(* dispatch of the Chessnut Move stack.                                    *)
(*                                                                         *)
(* Spec       DriverManager (server/driver_manager.py) running over        *)
(*            ChessnutDriver.connect/disconnect (driver/driver.py) and     *)
(*            BleakTransport (driver/ble.py) on one asyncio event loop.    *)
(*            A task is parked at a suspension point (its pc); one action  *)
(*            resumes it and runs it to its next suspension point.         *)
(* ShutdownSpec     Spec in which no connect() or set_auto_connect(True)  *)
(*            call starts while a shutdown() is running.                   *)
(* AutoConnectSpec  Spec started with auto-connect enabled, callers only   *)
(*            connecting and disconnecting, every task scheduled fairly.   *)
(* DriverSpec ChessnutDriver._on_board_state fed with board-state-channel  *)
(*            frames (driver/driver.py, driver/codec.py).                  *)
(* StallSpec  Explicit connect() and disconnect() calls in which a         *)
(*            platform call awaited without a timeout may never complete.  *)
(* CommandSpec  The driver's and the transport's commands issued in every  *)
(*            connection state while callers connect and disconnect.       *)
(* CodecSpec  The pure functions of driver/codec.py applied to FEN texts,  *)
(*            to frames and to lists of squares.                           *)
(* ResponseSpec  ChessnutDriver._on_command_response fed with              *)
(*            command-response-channel frames.                             *)
(* StatusSpec  Both notification channels feeding get_status(): battery    *)
(*            frames, power-level answers and board frames.                *)
(* RequestSpec  The three request_* commands and the answers arriving on   *)
(*            the command-response channel while it is subscribed.         *)
(* SessionSpec  Every command operation of the server issued while the     *)
(*            driver's cache is filled by notifications.                   *)
(***************************************************************************)
EXTENDS Integers, Sequences, FiniteSets, TLC

\* ------------------------------------------------------------------ bounds
NumCallers == 2
MaxLoops == 2
MaxClients == 2
NumListeners == 2

NoTask == 0
NoClient == 0
NoLevel == -1
NoFen == <<>>
NoFrame == <<-1>>
NoText == <<-1>>

NoResult == <<"none", "none">>

\* no command issued yet. A command's record: its name and argument,
\* whether the driver was connected when it was called, whether its argument
\* passed validation, the number of write_gatt_char calls it made, how the
\* write ended ("none", "pending", "ok", "error"), its client and its frame,
\* and what it returned ("unset" until it returns)
NoCmd ==
    [name |-> "none", arg |-> <<>>, connected |-> FALSE, valid |-> FALSE,
     writes |-> 0, write |-> "none", client |-> NoClient, frame |-> <<>>,
     returned |-> "unset"]

\* no codec function applied
NoCodec ==
    [fn |-> "none", arg |-> <<>>, force |-> FALSE, color |-> 0, mid |-> <<>>,
     out |-> <<>>]

Callers == 1..NumCallers
Loops == {100 + i : i \in 1..MaxLoops}
Tasks == Callers \cup Loops
ClientIds == 1..MaxClients

VARIABLES
    enabled,        \* DriverManager._config.enabled
    mgrTask,        \* DriverManager._auto_connect_task (NoTask = None)
    lockHolder,     \* DriverManager._lock: the task holding it (NoTask = unlocked)
    lockWaiters,    \* DriverManager._lock: FIFO of the tasks waiting in acquire()
    pc,             \* per task: the suspension point it is parked at
    op,             \* per caller: the DriverManager call it is in
    result,         \* per caller: <<call, outcome>> of its last finished call
    awaited,        \* per caller: local `task` of _stop_auto_connect
    cancelReq,      \* per loop task: task.cancel() was called, not yet delivered
    disabledSince,  \* a set_auto_connect(False) returned and enabled stayed false since
    lastRound,      \* per loop task: what it did last: "none", "attempt" (it
                    \* called driver.connect()), "skip" (it found the driver
                    \* connected), "skip_locked" (it found auto-connect off
                    \* or the driver connected once it held the lock),
                    \* "slept" (its retry sleep ended since)
    client,         \* BleakTransport._client (NoClient = None)
    device,         \* BleakTransport._device is not None
    connected,      \* BleakTransport._state.connected
    linkUp,         \* platform clients whose link is open (BleakClient.is_connected)
    setupLog,       \* setup steps that succeeded on the current client, in order
    teardown,       \* how the last BleakTransport.disconnect() ended, until a
                    \* new client is created ("none" = no disconnect since)
    dropped,        \* the platform reported a drop of the connected link, and
                    \* since then no link was opened and no
                    \* DriverManager.connect() was called
    tBattery,       \* BleakTransport._state.battery_level (NoLevel = None)
    listeners,      \* ChessnutDriver._position_callbacks: how each listener behaves
    currentFen,     \* ChessnutDriver._current_fen (NoFen = None)
    currentPosition,\* ChessnutDriver._current_position, as the FEN it was parsed from
    batteryLevel,   \* ChessnutDriver._battery_level (NoLevel = None)
    lastFrame,      \* the frame of the last board-state-channel notification
    prevFen,        \* ChessnutDriver._current_fen as that notification found it
    forwarded,      \* that notification was passed to the board-state listeners
    lastLevel,      \* the kind and the level of the most recent battery frame
                    \* (board-state channel) or power-level frame
                    \* (command-response channel)
    calls,          \* per listener: times it was invoked by that notification
    escaped,        \* an exception propagated out of that notification's dispatch
    firmwareVersion,\* ChessnutDriver._firmware_version (NoText = None)
    isCharging,     \* ChessnutDriver._is_charging ("none" = None)
    piecePositions, \* ChessnutDriver._piece_positions: <<x, y, battery>> entries
    lastResponse,   \* the frame of the last command-response notification
    prevPieces,     \* ChessnutDriver._piece_positions as that notification found it
    cmd,            \* the driver or transport command issued last
    codec           \* a codec function applied to an input, and what it gave

mgrVars == <<enabled, mgrTask, awaited, cancelReq, disabledSince, lastRound>>
lockVars == <<lockHolder, lockWaiters>>
taskVars == <<pc, op, result>>
tVars == <<client, device, connected, linkUp, setupLog, teardown, dropped>>
respVars == <<firmwareVersion, isCharging, piecePositions, lastResponse, prevPieces>>
obsVars == <<forwarded, lastLevel>>
drvVars ==
    <<tBattery, listeners, currentFen, currentPosition, batteryLevel, lastFrame,
      prevFen, calls, escaped, obsVars, respVars, cmd, codec>>
vars == <<mgrVars, lockVars, taskVars, tVars, drvVars>>

\* ------------------------------------------------------ tasks and the lock
ConnectPcs ==
    {"predisc", "scan", "open", "mtu", "sub_fen", "settle", "sub_cmd",
     "init_write", "init_sleep", "cfg_write", "cfg_sleep", "rbdisc"}

DonePcs == {"cancelled", "finished", "failed"}

\* asyncio.Task.done()
Done(t) == pc[t] \in DonePcs

Alive(t) == t \in Loops /\ pc[t] \notin DonePcs \cup {"unused"}

\* A task resumes normally only if no CancelledError is pending for it.
Runnable(t) == IF t \in Callers THEN TRUE ELSE ~cancelReq[t]

\* BleakTransport.is_connected / ChessnutDriver.is_connected
is_connected == connected /\ client # NoClient /\ client \in linkUp

\* asyncio.Lock.acquire() takes the lock without suspending
LockFree == lockHolder = NoTask /\ lockWaiters = <<>>

\* asyncio.Lock: the first waiter is woken once the lock is released
Woken(t) == lockHolder = NoTask /\ lockWaiters # <<>> /\ Head(lockWaiters) = t

Without(q, t) == SelectSeq(q, LAMBDA x : x # t)

Goto(t, p) ==
    /\ pc' = [pc EXCEPT ![t] = p]
    /\ UNCHANGED <<op, result, lockVars>>

\* ----------------------------------------------------------- BleakTransport
FreeClients == {c \in ClientIds : c \notin linkUp \cup {client}}

FreshClient == CHOOSE c \in FreeClients : \A d \in FreeClients : c <= d

TeardownOutcomes == {"ok", "error"}

\* A disconnect() that keeps its state when the platform teardown raises
TransportDisconnectKeepsOnError(outcome) ==
    /\ linkUp' = linkUp \ {client}
    /\ client' = IF outcome = "error" THEN client ELSE NoClient
    /\ device' = IF outcome = "error" THEN device ELSE FALSE
    /\ connected' = FALSE
    /\ setupLog' = <<>>
    /\ teardown' = outcome
    /\ dropped' = dropped

\* BleakTransport.disconnect(): the platform teardown was awaited (with either
\* outcome); the local connection state is cleared.
TransportDisconnect(outcome) ==
    /\ linkUp' = linkUp \ {client}
    /\ client' = NoClient
    /\ device' = FALSE
    /\ connected' = FALSE
    /\ setupLog' = <<>>
    /\ teardown' = outcome
    /\ dropped' = dropped

\* DriverManager.connect(): `async with self._lock: return await ...` ends
CallerConnectReturns(c, r) ==
    /\ lockHolder' = NoTask
    /\ lockWaiters' = lockWaiters
    /\ pc' = [pc EXCEPT ![c] = "idle"]
    /\ op' = [op EXCEPT ![c] = "none"]
    /\ result' = [result EXCEPT ![c] = <<"connect", r>>]

\* The loop starting its next round as soon as the attempt has ended
LoopConnectReturnsNoSleep(t, r) ==
    /\ lockHolder' = NoTask
    /\ lockWaiters' = lockWaiters
    /\ pc' = [pc EXCEPT ![t] = IF r = "raised" THEN "failed" ELSE "start"]
    /\ UNCHANGED <<op, result>>

\* _auto_connect_loop: the connect attempt ends; the lock is released; the
\* loop goes on to its retry sleep, or dies of the error connect() raised.
LoopConnectReturns(t, r) ==
    /\ lockHolder' = NoTask
    /\ lockWaiters' = lockWaiters
    /\ pc' = [pc EXCEPT ![t] = IF r = "raised" THEN "failed" ELSE "sleep"]
    /\ UNCHANGED <<op, result>>

ConnectReturns(t, r) ==
    IF t \in Callers THEN CallerConnectReturns(t, r) ELSE LoopConnectReturns(t, r)

\* connect() opening a new client without disconnecting the one it holds
ConnectEntryNoTeardown == "scan"

\* connect() line 89: entered with the lock held, runs to its first await
ConnectEntryPc == IF client # NoClient THEN "predisc" ELSE "scan"

\* connect() line 90: the disconnect of the previous client finished
PreDisconnectDone(t) ==
    /\ pc[t] = "predisc" /\ Runnable(t)
    /\ \E outcome \in TeardownOutcomes : TransportDisconnect(outcome)
    /\ Goto(t, "scan")
    /\ UNCHANGED <<mgrVars, drvVars>>

ScanOutcomes == {"found", "none", "error"}

\* connect() lines 92-106: scan() finished; BleakClient created
ScanDone(t) ==
    /\ pc[t] = "scan" /\ Runnable(t)
    /\ \E outcome \in ScanOutcomes :
         CASE outcome = "found" ->
                /\ FreeClients # {}
                /\ client' = FreshClient
                /\ device' = TRUE
                /\ setupLog' = <<>>
                /\ teardown' = "none"
                /\ UNCHANGED <<connected, linkUp, dropped>>
                /\ Goto(t, "open")
           [] outcome = "none" ->
                /\ UNCHANGED tVars
                /\ ConnectReturns(t, "false")
           [] outcome = "error" ->
                /\ UNCHANGED tVars
                /\ ConnectReturns(t, "raised")
    /\ UNCHANGED <<mgrVars, drvVars>>

OpenOutcomes == {"ok", "timeout", "error", "down"}

\* connect() lines 107-121: wait_for(client.connect()) finished
OpenDone(t) ==
    /\ pc[t] = "open" /\ Runnable(t)
    /\ \E outcome \in OpenOutcomes :
         IF outcome = "ok"
         THEN /\ linkUp' = linkUp \cup {client}
              /\ connected' = TRUE
              /\ dropped' = FALSE
              /\ UNCHANGED <<client, device, setupLog, teardown>>
              /\ Goto(t, "mtu")
         ELSE /\ UNCHANGED tVars
              /\ ConnectReturns(t, "false")
    /\ UNCHANGED <<mgrVars, drvVars>>

\* _request_mtu(): its failure is swallowed
MtuDone(t) ==
    /\ pc[t] = "mtu" /\ Runnable(t)
    /\ Goto(t, "sub_fen")
    /\ UNCHANGED <<mgrVars, tVars, drvVars>>

\* A platform call on the link can succeed only while the link is open.
PlatformOutcomes == IF client \in linkUp THEN {"ok", "error"} ELSE {"error"}

\* _setup_notifications(): start_notify(FEN_NOTIFY_UUID) finished
SubFenDone(t) ==
    /\ pc[t] = "sub_fen" /\ Runnable(t)
    /\ \E outcome \in PlatformOutcomes :
         IF outcome = "ok"
         THEN setupLog' = Append(setupLog, "fen") /\ Goto(t, "settle")
         ELSE setupLog' = setupLog /\ Goto(t, "rbdisc")
    /\ UNCHANGED <<client, device, connected, linkUp, teardown, dropped, mgrVars, drvVars>>

\* SettleDone with INIT sent before the command-response channel is subscribed
SettleDoneSkipsCmd(t) ==
    /\ pc[t] = "settle" /\ Runnable(t)
    /\ Goto(t, IF is_connected THEN "init_write" ELSE "init_sleep")
    /\ UNCHANGED <<mgrVars, tVars, drvVars>>

\* _setup_notifications(): asyncio.sleep(0.2) finished
SettleDone(t) ==
    /\ pc[t] = "settle" /\ Runnable(t)
    /\ Goto(t, "sub_cmd")
    /\ UNCHANGED <<mgrVars, tVars, drvVars>>

\* send_command(): returns False at once unless connected, else awaits the write
SendEntryPc(writing, skipped) == IF is_connected THEN writing ELSE skipped

\* _setup_notifications(): start_notify(COMMAND_NOTIFY_UUID) finished, then
\* _initialize_board() starts send_command(INIT_COMMAND)
SubCmdDone(t) ==
    /\ pc[t] = "sub_cmd" /\ Runnable(t)
    /\ \E outcome \in PlatformOutcomes :
         IF outcome = "ok"
         THEN /\ setupLog' = Append(setupLog, "cmd")
              /\ Goto(t, SendEntryPc("init_write", "init_sleep"))
         ELSE setupLog' = setupLog /\ Goto(t, "rbdisc")
    /\ UNCHANGED <<client, device, connected, linkUp, teardown, dropped, mgrVars, drvVars>>

\* send_command(INIT_COMMAND): write_gatt_char finished; an error is caught and
\* turned into False, which _initialize_board ignores
InitWriteDone(t) ==
    /\ pc[t] = "init_write" /\ Runnable(t)
    /\ \E outcome \in PlatformOutcomes :
         setupLog' = IF outcome = "ok" THEN Append(setupLog, "init") ELSE setupLog
    /\ Goto(t, "init_sleep")
    /\ UNCHANGED <<client, device, connected, linkUp, teardown, dropped, mgrVars, drvVars>>

\* _initialize_board(): asyncio.sleep(0.5) finished, send_command(CONFIG_COMMAND)
InitSleepDone(t) ==
    /\ pc[t] = "init_sleep" /\ Runnable(t)
    /\ Goto(t, SendEntryPc("cfg_write", "cfg_sleep"))
    /\ UNCHANGED <<mgrVars, tVars, drvVars>>

\* send_command(CONFIG_COMMAND): write_gatt_char finished
CfgWriteDone(t) ==
    /\ pc[t] = "cfg_write" /\ Runnable(t)
    /\ \E outcome \in PlatformOutcomes :
         setupLog' = IF outcome = "ok" THEN Append(setupLog, "config") ELSE setupLog
    /\ Goto(t, "cfg_sleep")
    /\ UNCHANGED <<client, device, connected, linkUp, teardown, dropped, mgrVars, drvVars>>

\* _initialize_board(): asyncio.sleep(0.2) finished; connect() returns True
CfgSleepDone(t) ==
    /\ pc[t] = "cfg_sleep" /\ Runnable(t)
    /\ ConnectReturns(t, "true")
    /\ UNCHANGED <<mgrVars, tVars, drvVars>>

\* connect() lines 127-130: setup raised, the rollback disconnect() finished
RollbackDone(t) ==
    /\ pc[t] = "rbdisc" /\ Runnable(t)
    /\ \E outcome \in TeardownOutcomes : TransportDisconnect(outcome)
    /\ ConnectReturns(t, "false")
    /\ UNCHANGED <<mgrVars, drvVars>>

\* A caller is inside DriverManager.connect() (waiting for the lock included).
ExplicitConnectRunning == \E c \in Callers : op[c] = "connect" /\ pc[c] # "idle"

\* BleakTransport._on_disconnect: the platform reports a spontaneous link drop
LinkDrop ==
    /\ \E c \in linkUp : linkUp' = linkUp \ {c}
    /\ connected' = FALSE
    /\ dropped' = IF is_connected /\ ~ExplicitConnectRunning THEN TRUE ELSE dropped
    /\ UNCHANGED <<client, device, setupLog, teardown, mgrVars, lockVars, taskVars, drvVars>>

TransportStep(t) ==
    \/ PreDisconnectDone(t)
    \/ ScanDone(t)
    \/ OpenDone(t)
    \/ MtuDone(t)
    \/ SubFenDone(t)
    \/ SettleDone(t)
    \/ SubCmdDone(t)
    \/ InitWriteDone(t)
    \/ InitSleepDone(t)
    \/ CfgWriteDone(t)
    \/ CfgSleepDone(t)
    \/ RollbackDone(t)

\* ------------------------------------------------------------ DriverManager
\* A loop task slot that create_task can use: never used, or finished and no
\* longer referenced by the manager or by a caller awaiting it.
FreeLoops ==
    {t \in Loops : /\ pc[t] \in DonePcs \cup {"unused"}
                   /\ mgrTask # t
                   /\ \A c \in Callers : awaited[c] # t}

NewLoop == CHOOSE t \in FreeLoops : \A u \in FreeLoops : t <= u

\* _start_auto_connect line 74: nothing to do while the tracked task runs
TrackedLoopRunning == mgrTask # NoTask /\ ~Done(mgrTask)

\* transport.disconnect() with no client: nothing is awaited
ClearedAtOnce ==
    /\ client' = NoClient
    /\ device' = FALSE
    /\ connected' = FALSE
    /\ setupLog' = <<>>
    /\ teardown' = "skipped"
    /\ dropped' = dropped
    /\ linkUp' = linkUp

\* DriverManager.disconnect(), entered by caller c whose call is o, from the
\* task table pc1: acquire the lock, then driver.disconnect()
DisconnectStart(c, o, pc1) ==
    IF LockFree
    THEN IF client # NoClient
         THEN /\ lockHolder' = c
              /\ lockWaiters' = lockWaiters
              /\ pc' = [pc1 EXCEPT ![c] = "disc"]
              /\ op' = [op EXCEPT ![c] = o]
              /\ result' = [result EXCEPT ![c] = NoResult]
              /\ UNCHANGED tVars
         ELSE /\ UNCHANGED lockVars
              /\ pc' = [pc1 EXCEPT ![c] = "idle"]
              /\ op' = [op EXCEPT ![c] = "none"]
              /\ result' = [result EXCEPT ![c] = <<o, "ok">>]
              /\ ClearedAtOnce
    ELSE /\ lockHolder' = lockHolder
         /\ lockWaiters' = Append(lockWaiters, c)
         /\ pc' = [pc1 EXCEPT ![c] = "lockwait"]
         /\ op' = [op EXCEPT ![c] = o]
         /\ result' = [result EXCEPT ![c] = NoResult]
         /\ UNCHANGED tVars

\* set_auto_connect() returned to its caller: the call ends, or shutdown()
\* goes on to disconnect()
SetAutoReturns(c, o, pc1) ==
    IF o = "shutdown"
    THEN DisconnectStart(c, o, pc1)
    ELSE /\ pc' = [pc1 EXCEPT ![c] = "idle"]
         /\ op' = [op EXCEPT ![c] = "none"]
         /\ result' = [result EXCEPT ![c] = <<o, "ok">>]
         /\ UNCHANGED <<lockVars, tVars>>

\* `await task` re-raised the error the loop task died of
SetAutoRaises(c, o) ==
    /\ pc' = [pc EXCEPT ![c] = "idle"]
    /\ op' = [op EXCEPT ![c] = "none"]
    /\ result' = [result EXCEPT ![c] = <<o, "raised">>]
    /\ UNCHANGED <<lockVars, tVars>>

\* DriverManager.connect()
CallConnect(c) ==
    /\ pc[c] = "idle"
    /\ op' = [op EXCEPT ![c] = "connect"]
    /\ result' = [result EXCEPT ![c] = NoResult]
    /\ IF LockFree
       THEN /\ lockHolder' = c
            /\ lockWaiters' = lockWaiters
            /\ pc' = [pc EXCEPT ![c] = ConnectEntryPc]
       ELSE /\ lockHolder' = lockHolder
            /\ lockWaiters' = Append(lockWaiters, c)
            /\ pc' = [pc EXCEPT ![c] = "lockwait"]
    /\ dropped' = FALSE
    /\ UNCHANGED <<client, device, connected, linkUp, setupLog, teardown, mgrVars, drvVars>>

\* DriverManager.disconnect()
CallDisconnect(c) ==
    /\ pc[c] = "idle"
    /\ DisconnectStart(c, "disconnect", pc)
    /\ UNCHANGED <<mgrVars, drvVars>>

\* A caller waiting in `async with self._lock` obtains the lock
CallerLockAcquired(c) ==
    /\ pc[c] = "lockwait" /\ Woken(c)
    /\ lockWaiters' = Tail(lockWaiters)
    /\ IF op[c] = "connect"
       THEN /\ lockHolder' = c
            /\ pc' = [pc EXCEPT ![c] = ConnectEntryPc]
            /\ UNCHANGED <<op, result, tVars>>
       ELSE IF client # NoClient
            THEN /\ lockHolder' = c
                 /\ pc' = [pc EXCEPT ![c] = "disc"]
                 /\ UNCHANGED <<op, result, tVars>>
            ELSE /\ lockHolder' = NoTask
                 /\ pc' = [pc EXCEPT ![c] = "idle"]
                 /\ op' = [op EXCEPT ![c] = "none"]
                 /\ result' = [result EXCEPT ![c] = <<op[c], "ok">>]
                 /\ ClearedAtOnce
    /\ UNCHANGED <<mgrVars, drvVars>>

\* A disconnect that forgets the board position with the link
DisconnectDoneClearsPosition(c) ==
    /\ pc[c] = "disc"
    /\ \E outcome \in TeardownOutcomes : TransportDisconnect(outcome)
    /\ lockHolder' = NoTask
    /\ lockWaiters' = lockWaiters
    /\ pc' = [pc EXCEPT ![c] = "idle"]
    /\ op' = [op EXCEPT ![c] = "none"]
    /\ result' = [result EXCEPT ![c] = <<op[c], "ok">>]
    /\ currentFen' = NoFen
    /\ currentPosition' = NoFen
    /\ UNCHANGED <<mgrVars, tBattery, listeners, batteryLevel, lastFrame, prevFen,
                   calls, escaped, obsVars, respVars, cmd, codec>>

\* DriverManager.disconnect(): driver.disconnect() finished, the lock is released
DisconnectDone(c) ==
    /\ pc[c] = "disc"
    /\ \E outcome \in TeardownOutcomes : TransportDisconnect(outcome)
    /\ lockHolder' = NoTask
    /\ lockWaiters' = lockWaiters
    /\ pc' = [pc EXCEPT ![c] = "idle"]
    /\ op' = [op EXCEPT ![c] = "none"]
    /\ result' = [result EXCEPT ![c] = <<op[c], "ok">>]
    /\ UNCHANGED <<mgrVars, drvVars>>

\* set_auto_connect(True), both branches: the flag is set and
\* _start_auto_connect() spawns a loop task unless the tracked one still runs
SetAutoOn(c) ==
    /\ pc[c] = "idle"
    /\ enabled' = TRUE
    /\ disabledSince' = FALSE
    /\ IF TrackedLoopRunning
       THEN /\ mgrTask' = mgrTask
            /\ lastRound' = lastRound
            /\ SetAutoReturns(c, "set_auto", pc)
       ELSE /\ FreeLoops # {}
            /\ mgrTask' = NewLoop
            /\ lastRound' = [lastRound EXCEPT ![NewLoop] = "none"]
            /\ SetAutoReturns(c, "set_auto", [pc EXCEPT ![NewLoop] = "start"])
    /\ UNCHANGED <<awaited, cancelReq, drvVars>>

\* set_auto_connect(False) called as o ("set_auto", or "shutdown" for
\* shutdown()): the flag is cleared and _stop_auto_connect() runs up to
\* `await task`
SetAutoOff(c, o) ==
    /\ pc[c] = "idle"
    /\ enabled' = FALSE
    /\ IF mgrTask = NoTask
       THEN /\ disabledSince' = TRUE
            /\ SetAutoReturns(c, o, pc)
            /\ UNCHANGED <<mgrTask, awaited, cancelReq>>
       ELSE IF Done(mgrTask)
            THEN IF pc[mgrTask] = "failed"
                 THEN /\ SetAutoRaises(c, o)
                      /\ UNCHANGED <<mgrTask, awaited, cancelReq, disabledSince>>
                 ELSE /\ mgrTask' = NoTask
                      /\ disabledSince' = TRUE
                      /\ SetAutoReturns(c, o, pc)
                      /\ UNCHANGED <<awaited, cancelReq>>
            ELSE /\ cancelReq' = [cancelReq EXCEPT ![mgrTask] = TRUE]
                 /\ awaited' = [awaited EXCEPT ![c] = mgrTask]
                 /\ pc' = [pc EXCEPT ![c] = "sa_wait"]
                 /\ op' = [op EXCEPT ![c] = o]
                 /\ result' = [result EXCEPT ![c] = NoResult]
                 /\ UNCHANGED <<mgrTask, disabledSince, lockVars, tVars>>
    /\ UNCHANGED <<lastRound, drvVars>>

CallSetAutoConnect(c, b) == IF b THEN SetAutoOn(c) ELSE SetAutoOff(c, "set_auto")

\* DriverManager.shutdown()
CallShutdown(c) == SetAutoOff(c, "shutdown")

\* _stop_auto_connect lines 84-87: the awaited loop task has terminated
StopWaitDone(c) ==
    /\ pc[c] = "sa_wait" /\ Done(awaited[c])
    /\ awaited' = [awaited EXCEPT ![c] = NoTask]
    /\ IF pc[awaited[c]] = "failed"
       THEN /\ SetAutoRaises(c, op[c])
            /\ UNCHANGED <<mgrTask, disabledSince>>
       ELSE /\ mgrTask' = NoTask
            /\ disabledSince' = ~enabled
            /\ SetAutoReturns(c, op[c], pc)
    /\ UNCHANGED <<enabled, cancelReq, lastRound, drvVars>>

\* Loop task t records what it does in this round.
Round(t, what) == lastRound' = [lastRound EXCEPT ![t] = what]

\* the record of loop task t once a retry sleep it was in has ended
Rested(t) == IF pc[t] = "sleep" THEN "slept" ELSE lastRound[t]

\* The loop calling driver.connect() without taking the lock
LoopIterateNoLock(t) ==
    /\ pc[t] \in {"start", "sleep"} /\ Runnable(t)
    /\ IF ~enabled
       THEN pc' = [pc EXCEPT ![t] = "finished"] /\ Round(t, "none")
       ELSE IF is_connected
            THEN pc' = [pc EXCEPT ![t] = "sleep"] /\ Round(t, "skip")
            ELSE pc' = [pc EXCEPT ![t] = ConnectEntryPc] /\ Round(t, "attempt")
    /\ UNCHANGED <<lockVars, op, result, tVars, drvVars>>
    /\ UNCHANGED <<enabled, mgrTask, awaited, cancelReq, disabledSince>>

\* _auto_connect_loop lines 91-96: the loop task runs from its start, or from
\* the end of its retry sleep, to its next suspension point
LoopIterate(t) ==
    /\ pc[t] \in {"start", "sleep"} /\ Runnable(t)
    /\ IF ~enabled
       THEN /\ pc' = [pc EXCEPT ![t] = "finished"]
            /\ Round(t, "none")
            /\ UNCHANGED lockVars
       ELSE IF is_connected
            THEN /\ pc' = [pc EXCEPT ![t] = "sleep"]
                 /\ Round(t, "skip")
                 /\ UNCHANGED lockVars
            ELSE IF LockFree
                 THEN /\ lockHolder' = t
                      /\ lockWaiters' = lockWaiters
                      /\ pc' = [pc EXCEPT ![t] = ConnectEntryPc]
                      /\ Round(t, "attempt")
                 ELSE /\ lockHolder' = lockHolder
                      /\ lockWaiters' = Append(lockWaiters, t)
                      /\ pc' = [pc EXCEPT ![t] = "lockwait"]
                      /\ Round(t, Rested(t))
    /\ UNCHANGED <<op, result, tVars, drvVars>>
    /\ UNCHANGED <<enabled, mgrTask, awaited, cancelReq, disabledSince>>

\* The loop calling driver.connect() as soon as it obtains the lock
LoopLockAcquiredNoRecheck(t) ==
    /\ pc[t] = "lockwait" /\ Runnable(t) /\ t \in Loops /\ Woken(t)
    /\ lockWaiters' = Tail(lockWaiters)
    /\ lockHolder' = t
    /\ pc' = [pc EXCEPT ![t] = ConnectEntryPc]
    /\ Round(t, "attempt")
    /\ UNCHANGED <<op, result, tVars, drvVars>>
    /\ UNCHANGED <<enabled, mgrTask, awaited, cancelReq, disabledSince>>

\* _auto_connect_loop lines 93-96: the loop obtains the lock it waited for and
\* re-checks the flag and the connection state under it
LoopLockAcquired(t) ==
    /\ pc[t] = "lockwait" /\ Runnable(t) /\ t \in Loops /\ Woken(t)
    /\ lockWaiters' = Tail(lockWaiters)
    /\ IF enabled /\ ~is_connected
       THEN /\ lockHolder' = t
            /\ pc' = [pc EXCEPT ![t] = ConnectEntryPc]
            /\ Round(t, "attempt")
       ELSE /\ lockHolder' = NoTask
            /\ pc' = [pc EXCEPT ![t] = "sleep"]
            /\ Round(t, "skip_locked")
    /\ UNCHANGED <<op, result, tVars, drvVars>>
    /\ UNCHANGED <<enabled, mgrTask, awaited, cancelReq, disabledSince>>

\* The link as a connect cancelled inside wait_for(client.connect()) leaves it:
\* the platform may or may not have opened it.
LinkAfterCancel(t) ==
    IF pc[t] = "open" THEN {linkUp, linkUp \cup {client}} ELSE {linkUp}

\* A cancelled loop task ending without releasing the lock it holds
LoopCancelledKeepsLock(t) ==
    /\ Alive(t) /\ cancelReq[t]
    /\ pc' = [pc EXCEPT ![t] = "cancelled"]
    /\ cancelReq' = [cancelReq EXCEPT ![t] = FALSE]
    /\ lockHolder' = lockHolder
    /\ lockWaiters' = Without(lockWaiters, t)
    /\ linkUp' \in LinkAfterCancel(t)
    /\ UNCHANGED <<client, device, connected, setupLog, teardown, dropped>>
    /\ Round(t, "none")
    /\ UNCHANGED <<op, result, enabled, mgrTask, awaited, disabledSince, drvVars>>

\* The pending CancelledError is thrown into the loop task at its suspension
\* point: `async with` releases the lock (or acquire() gives up waiting), the
\* loop re-raises and the task ends cancelled.
LoopCancelled(t) ==
    /\ Alive(t) /\ cancelReq[t]
    /\ pc' = [pc EXCEPT ![t] = "cancelled"]
    /\ cancelReq' = [cancelReq EXCEPT ![t] = FALSE]
    /\ lockHolder' = IF lockHolder = t THEN NoTask ELSE lockHolder
    /\ lockWaiters' = Without(lockWaiters, t)
    /\ linkUp' \in LinkAfterCancel(t)
    /\ UNCHANGED <<client, device, connected, setupLog, teardown, dropped>>
    /\ Round(t, "none")
    /\ UNCHANGED <<op, result, enabled, mgrTask, awaited, disabledSince, drvVars>>

\* ---------------------------------------------------------- Protocol Codec
\* Byte strings are sequences of 0..255 (data[i] of the code is data[i + 1]);
\* text is a sequence of one-character strings.
BOARD_STATE == 1
BATTERY_LEVEL == 42
BOARD_STATE_LENGTH == 38

DEFAULT_FEN_TAIL == <<"w", " ", "K", "Q", "k", "q", " ", "-", " ", "0", " ", "1">>

Absent == [ok |-> FALSE, fen |-> <<>>]

Pieces == <<"q", "k", "b", "p", "n", "R", "P", "r", "B", "N", "Q", "K">>

\* VALUE_TO_PIECE.get(value, " ")
ValueToPiece(v) == IF v \in 1..12 THEN Pieces[v] ELSE " "

Digits == <<"1", "2", "3", "4", "5", "6", "7", "8">>

\* the characters str.split() and str.strip() treat as separators
Whitespace == {" ", "\t", "\n"}

RECURSIVE SplitFrom(_, _, _, _)
\* str.split(): the whitespace-separated fields of s from index i on, cur being
\* the field under construction and acc the fields found
SplitFrom(s, i, cur, acc) ==
    IF i > Len(s)
    THEN IF cur = <<>> THEN acc ELSE Append(acc, cur)
    ELSE IF s[i] \in Whitespace
         THEN SplitFrom(s, i + 1, <<>>, IF cur = <<>> THEN acc ELSE Append(acc, cur))
         ELSE SplitFrom(s, i + 1, Append(cur, s[i]), acc)

Split(s) == SplitFrom(s, 1, <<>>, <<>>)

RECURSIVE JoinFrom(_, _)
\* " ".join(parts[i:])
JoinFrom(parts, i) ==
    IF i > Len(parts) THEN <<>>
    ELSE IF i = Len(parts) THEN parts[i]
    ELSE parts[i] \o <<" ">> \o JoinFrom(parts, i + 1)

\* The full default tail appended whatever the number of fields
FenDefaultsAlwaysTail(n) == DEFAULT_FEN_TAIL

\* normalize_fen: the defaults appended to a FEN of n fields
FenDefaults(n) ==
    CASE n = 1 -> DEFAULT_FEN_TAIL
      [] n = 2 -> <<"K", "Q", "k", "q", " ", "-", " ", "0", " ", "1">>
      [] n = 3 -> <<"-", " ", "0", " ", "1">>
      [] n = 4 -> <<"0", " ", "1">>
      [] n = 5 -> <<"1">>

\* normalize_fen(fen); ok = FALSE stands for the ValueError it raises
normalize_fen(fen) ==
    LET parts == Split(fen)
        n == Len(parts)
    IN  IF n = 0 THEN Absent
        ELSE IF n <= 5
             THEN [ok |-> TRUE, fen |-> JoinFrom(parts, 1) \o <<" ">> \o FenDefaults(n)]
        ELSE IF n = 6 THEN [ok |-> TRUE, fen |-> fen]
        ELSE Absent

\* The two nibbles of a byte read the other way round
PieceValueAtSwapped(data, row, col) ==
    LET byte == data[((row * 8 + col) \div 2) + 2 + 1]
    IN  IF col % 2 = 0 THEN (byte \div 16) % 16 ELSE byte % 16

\* decode_board_state: the piece value of column col of row `row`
PieceValueAt(data, row, col) ==
    LET byte == data[((row * 8 + col) \div 2) + 2 + 1]
    IN  IF col % 2 = 0 THEN byte % 16 ELSE (byte \div 16) % 16

RECURSIVE RankFrom(_, _, _, _)
\* decode_board_state lines 215-233: the rank string of one row, scanning the
\* columns 7 down to 0 and run-length encoding the empty squares
RankFrom(data, row, col, empty) ==
    IF col < 0
    THEN IF empty > 0 THEN <<Digits[empty]>> ELSE <<>>
    ELSE LET piece == ValueToPiece(PieceValueAt(data, row, col))
         IN  IF piece = " "
             THEN RankFrom(data, row, col - 1, empty + 1)
             ELSE (IF empty > 0 THEN <<Digits[empty]>> ELSE <<>>)
                      \o <<piece>> \o RankFrom(data, row, col - 1, 0)

RECURSIVE RanksFrom(_, _)
\* "/".join(fen_parts)
RanksFrom(data, row) ==
    IF row = 7 THEN RankFrom(data, row, 7, 0)
    ELSE RankFrom(data, row, 7, 0) \o <<"/">> \o RanksFrom(data, row + 1)

\* A decoder that checks the length of the frame only
decode_board_state_unchecked(data) ==
    IF Len(data) < BOARD_STATE_LENGTH THEN Absent
    ELSE [ok |-> TRUE, fen |-> RanksFrom(data, 0)]

\* decode_board_state(data); ok = FALSE stands for None
decode_board_state(data) ==
    IF Len(data) < BOARD_STATE_LENGTH THEN Absent
    ELSE IF data[1] # BOARD_STATE \/ data[2] # 36 THEN Absent
    ELSE [ok |-> TRUE, fen |-> RanksFrom(data, 0)]

\* decode_battery_level(data); NoLevel stands for None
decode_battery_level(data) ==
    IF Len(data) < 3 THEN NoLevel
    ELSE IF data[1] # BATTERY_LEVEL THEN NoLevel
    ELSE data[3] % 256

COMMAND_RESPONSE == 65
FIRMWARE_VERSION == 9
MOVE_PIECE_STATE == 11
POWER_LEVEL == 12
MOVE_PIECE_STATE_LENGTH == 139
NUM_ROBOTIC_PIECES == 34

NoPower == [ok |-> FALSE, charging |-> FALSE, percentage |-> 0]

\* decode_power_level reading any nonzero byte 3 as charging
decode_power_level_nonzero(data) ==
    IF Len(data) < 5 THEN NoPower
    ELSE IF data[1] # COMMAND_RESPONSE \/ data[3] # POWER_LEVEL THEN NoPower
    ELSE [ok |-> TRUE, charging |-> data[4] # 0, percentage |-> data[5] % 256]

\* decode_power_level(data); ok = FALSE stands for None
decode_power_level(data) ==
    IF Len(data) < 5 THEN NoPower
    ELSE IF data[1] # COMMAND_RESPONSE \/ data[3] # POWER_LEVEL THEN NoPower
    ELSE [ok |-> TRUE, charging |-> data[4] = 1, percentage |-> data[5] % 256]

\* str.strip("\x00"): NUL characters removed at both ends
StripNul(text) ==
    LET kept == {i \in 1..Len(text) : text[i] # 0}
    IN  IF kept = {} THEN <<>>
        ELSE SubSeq(text, CHOOSE i \in kept : \A j \in kept : i <= j,
                          CHOOSE i \in kept : \A j \in kept : i >= j)

\* bytes.decode("utf-8") of an ASCII payload gives its characters, here their
\* code points; a byte above 0x7F that starts no valid sequence raises
Utf8Ok(payload) == \A i \in 1..Len(payload) : payload[i] < 128

\* data[a : b] of the code for 0 <= a and 0 <= b: the end is clamped to the
\* length, and the slice is empty when b <= a
Slice(data, a, b) ==
    LET hi == IF b > Len(data) THEN Len(data) ELSE b
    IN  IF hi <= a THEN <<>> ELSE SubSeq(data, a + 1, hi)

\* decode_firmware_version(data); NoText stands for None
decode_firmware_version(data) ==
    IF Len(data) < 4 THEN NoText
    ELSE IF data[1] # COMMAND_RESPONSE \/ data[3] # FIRMWARE_VERSION THEN NoText
    ELSE LET length == data[2] - 1
         IN  IF Len(data) < 3 + length THEN NoText
             ELSE LET payload == Slice(data, 3, 3 + length)
                  IN  IF Utf8Ok(payload) THEN StripNul(payload) ELSE NoText

\* decode_move_piece_state(data): the list of <<x, y, battery>>, empty for a
\* frame shorter than MOVE_PIECE_STATE_LENGTH
decode_move_piece_state(data) ==
    IF Len(data) < MOVE_PIECE_STATE_LENGTH THEN <<>>
    ELSE [idx \in 1..NUM_ROBOTIC_PIECES |->
            <<data[(idx - 1) * 4 + 5] % 256, data[(idx - 1) * 4 + 6] % 256,
              data[(idx - 1) * 4 + 7] % 256>>]

SYNC == 66
SET_MOVE_BOARD_LENGTH == 35

\* PIECE_TO_VALUE.get(piece, 0)
PieceToValue(piece) ==
    CASE piece = "q" -> 1
      [] piece = "k" -> 2
      [] piece = "b" -> 3
      [] piece = "p" -> 4
      [] piece = "n" -> 5
      [] piece = "R" -> 6
      [] piece = "P" -> 7
      [] piece = "r" -> 8
      [] piece = "B" -> 9
      [] piece = "N" -> 10
      [] piece = "Q" -> 11
      [] piece = "K" -> 12
      [] OTHER -> 0

DigitChars == <<"0", "1", "2", "3", "4", "5", "6", "7", "8", "9">>

\* char.isdigit()
IsDigit(char) == \E i \in 1..10 : DigitChars[i] = char

\* int(char)
DigitValue(char) == (CHOOSE i \in 1..10 : DigitChars[i] = char) - 1

\* a failed conversion: the ValueError the function raises
Failed == [ok |-> FALSE, val |-> <<>>]

\* board_only_fen(fen)
board_only_fen(fen) ==
    LET parts == Split(fen)
    IN  IF parts = <<>> THEN Failed ELSE [ok |-> TRUE, val |-> parts[1]]

\* fen_to_board_array line 76: 8 rows of 8 blanks; board[row + 1][col + 1] is
\* the code's board[row][col]
BlankBoard == [row \in 1..8 |-> [col \in 1..8 |-> " "]]

RECURSIVE BoardFrom(_, _, _, _, _)
\* fen_to_board_array lines 81-97: the loop over the characters of the board
\* field from index i on, then the final dimension check
BoardFrom(fen_board, i, row, col, board) ==
    IF i > Len(fen_board)
    THEN IF row # 7 \/ col # 8 THEN Failed ELSE [ok |-> TRUE, val |-> board]
    ELSE LET char == fen_board[i]
         IN  IF IsDigit(char)
             THEN BoardFrom(fen_board, i + 1, row, col + DigitValue(char), board)
             ELSE IF char = "/"
             THEN BoardFrom(fen_board, i + 1, row + 1, 0, board)
             ELSE IF row >= 8 \/ col >= 8
             THEN Failed
             ELSE BoardFrom(fen_board, i + 1, row, col + 1,
                            [board EXCEPT ![row + 1][col + 1] = char])

\* fen_to_board_array(fen)
fen_to_board_array(fen) ==
    LET first == board_only_fen(fen)
    IN  IF ~first.ok THEN Failed ELSE BoardFrom(first.val, 1, 0, 0, BlankBoard)

RECURSIVE PackBoardForward(_, _, _, _)
\* The column pairs of a row packed left to right
PackBoardForward(board, row, col_pair, data) ==
    IF row > 7 THEN data
    ELSE IF col_pair > 3 THEN PackBoardForward(board, row + 1, 0, data)
    ELSE LET col == col_pair * 2
             left_value == PieceToValue(board[row + 1][col + 1])
             right_value == PieceToValue(board[row + 1][col + 2])
             byte_idx == (row * 4) + col_pair + 2
         IN  PackBoardForward(board, row, col_pair + 1,
                              [data EXCEPT ![byte_idx + 1] = left_value * 16 + right_value])

RECURSIVE PackBoard(_, _, _, _)
\* encode_set_move_board_command lines 110-120: the loop over the rows and the
\* column pairs from (row, col_pair) on, writing one byte per pair
PackBoard(board, row, col_pair, data) ==
    IF row > 7 THEN data
    ELSE IF col_pair > 3 THEN PackBoard(board, row + 1, 0, data)
    ELSE LET col == col_pair * 2
             left_value == PieceToValue(board[row + 1][col + 1])
             right_value == PieceToValue(board[row + 1][col + 2])
             byte_idx == (row * 4) + (3 - col_pair) + 2
         IN  PackBoard(board, row, col_pair + 1,
                       [data EXCEPT ![byte_idx + 1] = left_value * 16 + right_value])

\* An encoder that always writes the force byte 0
encode_set_move_board_forced(fen, force) ==
    LET board == fen_to_board_array(fen)
        header == [[i \in 1..SET_MOVE_BOARD_LENGTH |-> 0]
                      EXCEPT ![1] = SYNC, ![2] = 33]
    IN  IF ~board.ok THEN Failed
        ELSE [ok |-> TRUE, val |-> PackBoard(board.val, 0, 0, header)]

\* encode_set_move_board_command(fen, force)
encode_set_move_board_command(fen, force) ==
    LET board == fen_to_board_array(fen)
        header == [[i \in 1..SET_MOVE_BOARD_LENGTH |-> 0]
                      EXCEPT ![1] = SYNC, ![2] = 33]
    IN  IF ~board.ok THEN Failed
        ELSE [ok |-> TRUE,
              val |-> [PackBoard(board.val, 0, 0, header)
                          EXCEPT ![35] = IF force THEN 0 ELSE 1]]

LED == 67
LED_COMMAND_LENGTH == 34
BUZZER_ENABLE == 27
CONTROL == 65

\* LEDColor
LEDColors == 0..3

INIT_COMMAND == <<33, 1, 0>>

CONFIG_COMMAND == <<11, 4, 3, 232, 0, 200>>

Files == <<"a", "b", "c", "d", "e", "f", "g", "h">>
UpperFiles == <<"A", "B", "C", "D", "E", "F", "G", "H">>

\* ord(sq[0].lower()) - ord("a"): 0..7 for the letters a..h in either case; any
\* other character gives an index outside 0..7, which stands here as -1
FileIndex(char) ==
    IF \E i \in 1..8 : Files[i] = char \/ UpperFiles[i] = char
    THEN (CHOOSE i \in 1..8 : Files[i] = char \/ UpperFiles[i] = char) - 1
    ELSE -1

RECURSIVE CoordsFrom(_, _, _)
\* encode_led_command_from_squares lines 159-166: the loop over the square
\* names from index i on; int(sq[1]) raises ValueError unless sq[1] is a digit
CoordsFrom(squares, i, coords) ==
    IF i > Len(squares) THEN [ok |-> TRUE, val |-> coords]
    ELSE LET sq == squares[i]
         IN  IF Len(sq) < 2 THEN CoordsFrom(squares, i + 1, coords)
             ELSE IF ~IsDigit(sq[2]) THEN Failed
             ELSE LET file_idx == FileIndex(sq[1])
                      rank_idx == DigitValue(sq[2]) - 1
                      row == 7 - rank_idx
                  IN  CoordsFrom(squares, i + 1, Append(coords, <<row, file_idx>>))

RECURSIVE LedsFrom(_, _, _, _)
\* encode_led_command lines 137-140: leds[row * 8 + col] = color for the
\* coordinates from index i on that lie on the board
LedsFrom(coords, i, color, leds) ==
    IF i > Len(coords) THEN leds
    ELSE LET row == coords[i][1]
             col == coords[i][2]
         IN  IF 0 <= row /\ row < 8 /\ 0 <= col /\ col < 8
             THEN LedsFrom(coords, i + 1, color, [leds EXCEPT ![row * 8 + col + 1] = color])
             ELSE LedsFrom(coords, i + 1, color, leds)

RECURSIVE PackLedsForward(_, _, _, _)
\* the packing with the column pairs of a row stored left to right
PackLedsForward(leds, row, col_pair, data) ==
    IF row > 7 THEN data
    ELSE IF col_pair > 3 THEN PackLedsForward(leds, row + 1, 0, data)
    ELSE LET col == col_pair * 2
             left_led == leds[row * 8 + col + 1]
             right_led == leds[row * 8 + col + 1 + 1]
             byte_idx == (row * 4) + col_pair + 2
         IN  PackLedsForward(leds, row, col_pair + 1,
                             [data EXCEPT ![byte_idx + 1] = left_led * 16 + right_led])

RECURSIVE PackLeds(_, _, _, _)
\* encode_led_command lines 142-149
PackLeds(leds, row, col_pair, data) ==
    IF row > 7 THEN data
    ELSE IF col_pair > 3 THEN PackLeds(leds, row + 1, 0, data)
    ELSE LET col == col_pair * 2
             left_led == leds[row * 8 + col + 1]
             right_led == leds[row * 8 + col + 1 + 1]
             byte_idx == (row * 4) + (3 - col_pair) + 2
         IN  PackLeds(leds, row, col_pair + 1,
                      [data EXCEPT ![byte_idx + 1] = left_led * 16 + right_led])

\* encode_led_command(squares, color), squares being (row, col) pairs
encode_led_command(coords, color) ==
    LET header == [[i \in 1..LED_COMMAND_LENGTH |-> 0] EXCEPT ![1] = LED, ![2] = 32]
        leds == LedsFrom(coords, 1, color, [i \in 1..64 |-> 0])
    IN  PackLeds(leds, 0, 0, header)

\* encode_led_command_from_squares(squares, color)
encode_led_command_from_squares(squares, color) ==
    LET coords == CoordsFrom(squares, 1, <<>>)
    IN  IF ~coords.ok THEN Failed
        ELSE [ok |-> TRUE, val |-> encode_led_command(coords.val, color)]

encode_clear_leds_command == <<LED, 32>> \o [i \in 1..32 |-> 0]

encode_buzzer_beep == CONFIG_COMMAND

encode_buzzer_enable(enable) == <<BUZZER_ENABLE, 1, IF enable THEN 1 ELSE 0>>

encode_get_power_level == <<CONTROL, 1, POWER_LEVEL>>

encode_get_firmware_version == <<CONTROL, 1, FIRMWARE_VERSION>>

encode_get_move_piece_state == <<CONTROL, 1, MOVE_PIECE_STATE>>

\* ------------------------------------------------------------ ChessnutDriver
RECURSIVE SquaresIn(_, _)
\* the number of squares the rank text from index i on describes, -1 if it
\* holds a symbol that is neither a piece nor a digit 1..8, or two digits in
\* a row
SquaresIn(rank, i) ==
    IF i > Len(rank) THEN 0
    ELSE LET rest == SquaresIn(rank, i + 1)
             here == IF \E d \in 1..8 : Digits[d] = rank[i]
                     THEN CHOOSE d \in 1..8 : Digits[d] = rank[i]
                     ELSE IF \E v \in 1..12 : Pieces[v] = rank[i] THEN 1 ELSE -1
             twoDigits == /\ i < Len(rank)
                          /\ \E d \in 1..8 : Digits[d] = rank[i]
                          /\ \E d \in 1..8 : Digits[d] = rank[i + 1]
         IN  IF rest < 0 \/ here < 0 \/ twoDigits THEN -1 ELSE here + rest

RECURSIVE RanksOf(_, _, _, _)
\* the board field cut at its "/" separators
RanksOf(board, i, cur, acc) ==
    IF i > Len(board) THEN Append(acc, cur)
    ELSE IF board[i] = "/" THEN RanksOf(board, i + 1, <<>>, Append(acc, cur))
    ELSE RanksOf(board, i + 1, Append(cur, board[i]), acc)

\* A parser that also rejects a board without a white and a black king
ChessBoardParsesWithKings(fen) ==
    LET parts == Split(fen)
    IN  /\ Len(parts) = 6
        /\ parts[2] \in {<<"w">>, <<"b">>}
        /\ LET ranks == RanksOf(parts[1], 1, <<>>, <<>>)
           IN  /\ Len(ranks) = 8
               /\ \A r \in 1..8 : SquaresIn(ranks[r], 1) = 8
        /\ \E i \in 1..Len(parts[1]) : parts[1][i] = "K"
        /\ \E i \in 1..Len(parts[1]) : parts[1][i] = "k"

\* chess.Board(fen) of the chess-rules library, called at driver.py line 165:
\* it accepts a FEN of six fields whose board field has 8 ranks of 8 squares
\* each and whose turn field is w or b, and raises ValueError otherwise.
ChessBoardParses(fen) ==
    LET parts == Split(fen)
    IN  /\ Len(parts) = 6
        /\ parts[2] \in {<<"w">>, <<"b">>}
        /\ LET ranks == RanksOf(parts[1], 1, <<>>, <<>>)
           IN  /\ Len(ranks) = 8
               /\ \A r \in 1..8 : SquaresIn(ranks[r], 1) = 8

\* Listeners fired on every decoded notification
PositionChangedAlways(full_fen, cached) == TRUE

\* _on_board_state line 161
PositionChanged(full_fen, cached) == full_fen # cached

\* A listener's exception left to propagate out of the dispatch loop
ListenerFailurePropagates == FALSE

\* _on_board_state lines 172-175: a listener's exception is caught and logged
ListenerFailureCaught == TRUE

NoCalls == [i \in 1..NumListeners |-> 0]

RECURSIVE Dispatch(_, _)
\* _on_board_state lines 171-175: the listeners are invoked in registration
\* order from listener i on; acc holds the invocation counts and whether an
\* exception has left the loop
Dispatch(i, acc) ==
    IF i > NumListeners THEN acc
    ELSE LET invoked == [acc EXCEPT !.calls[i] = @ + 1]
         IN  IF listeners[i] = "raises" /\ ~ListenerFailureCaught
             THEN [invoked EXCEPT !.escaped = TRUE]
             ELSE Dispatch(i + 1, invoked)

\* Board-state notifications: header 0x01 0x24, 32 packed board bytes, 4 more.
BoardFrame(payload, trailer) == <<1, 36>> \o payload \o trailer

StartPayload ==
    <<88, 35, 49, 133, 68, 68, 68, 68, 0, 0, 0, 0, 0, 0, 0, 0,
      0, 0, 0, 0, 0, 0, 0, 0, 119, 119, 119, 119, 166, 201, 155, 106>>

\* the starting position after 1. e4
KingPawnPayload ==
    <<88, 35, 49, 133, 68, 68, 68, 68, 0, 0, 0, 0, 0, 0, 0, 0,
      0, 112, 0, 0, 0, 0, 0, 0, 119, 7, 119, 119, 166, 201, 155, 106>>

EmptyPayload == [i \in 1..32 |-> 0]

\* nibbles 13..15 name no piece
StrayPayload == [i \in 1..32 |-> IF i = 1 THEN 222 ELSE 0]

BoardFrames ==
    {BoardFrame(StartPayload, <<0, 0, 0, 0>>),
     BoardFrame(StartPayload, <<9, 8, 7, 6>>),
     BoardFrame(KingPawnPayload, <<0, 0, 0, 0>>),
     BoardFrame(EmptyPayload, <<0, 0, 0, 0>>),
     BoardFrame(StrayPayload, <<0, 0, 0, 0>>)}

OtherFrames ==
    {<<>>,
     SubSeq(BoardFrame(StartPayload, <<0, 0, 0, 0>>), 1, 37),
     <<1, 35>> \o KingPawnPayload \o <<0, 0, 0, 0>>,
     <<1, 0, 55>>,
     <<42, 0, 80>>,
     <<42, 0, 15>>,
     <<42, 0>>,
     <<7, 1, 2>>}

TestFrames == BoardFrames \cup OtherFrames

\* decode_board_state, normalize_fen and chess.Board applied to a frame, as
\* _on_board_state lines 153-165 apply them
ReadBoard(data) ==
    LET msg == decode_board_state(data)
        norm == IF msg.ok THEN normalize_fen(msg.fen) ELSE Absent
    IN  [msg |-> msg, norm |-> norm,
         parses |-> norm.ok /\ ChessBoardParses(norm.fen)]

\* The readings of the frames fed to the driver, computed once.
BoardReadings == [data \in TestFrames |-> ReadBoard(data)] @@ <<>>

BoardReading(data) ==
    IF data \in TestFrames THEN BoardReadings[data] ELSE ReadBoard(data)

\* ChessnutDriver._on_board_state(data)
OnBoardState(data) ==
    LET reading == BoardReading(data)
        msg == reading.msg
    IN  IF ~msg.ok
        THEN LET level == decode_battery_level(data)
             IN  /\ batteryLevel' = IF level # NoLevel THEN level ELSE batteryLevel
                 /\ calls' = NoCalls
                 /\ escaped' = FALSE
                 /\ UNCHANGED <<currentFen, currentPosition>>
        ELSE LET norm == reading.norm
             IN  IF ~norm.ok
                 THEN /\ calls' = NoCalls
                      /\ escaped' = TRUE
                      /\ UNCHANGED <<currentFen, currentPosition, batteryLevel>>
                 ELSE /\ currentFen' = norm.fen
                      /\ batteryLevel' = batteryLevel
                      /\ IF ~reading.parses
                         THEN /\ calls' = NoCalls
                              /\ escaped' = FALSE
                              /\ currentPosition' = currentPosition
                         ELSE /\ currentPosition' = norm.fen
                              /\ LET out == IF PositionChanged(norm.fen, currentFen)
                                            THEN Dispatch(1, [calls |-> NoCalls,
                                                              escaped |-> FALSE])
                                            ELSE [calls |-> NoCalls, escaped |-> FALSE]
                                 IN  calls' = out.calls /\ escaped' = out.escaped

\* ChessnutDriver.get_status().battery_level: `self._battery_level or
\* state.battery_level`; None and 0 are both falsy.
StatusBatteryLevel ==
    IF batteryLevel # NoLevel /\ batteryLevel # 0 THEN batteryLevel ELSE tBattery

\* A battery frame of the board-state channel: tag 0x2A, the level in byte 2
IsBatteryFrame(data) == Len(data) >= 3 /\ data[1] = BATTERY_LEVEL

\* A power-level frame of the command-response channel: tag 0x41, subtype
\* 0x0C, the level in byte 4
IsPowerFrame(data) ==
    Len(data) >= 5 /\ data[1] = COMMAND_RESPONSE /\ data[3] = POWER_LEVEL

\* _on_fen_notification in which every frame that is not empty reaches the
\* board-state listeners
FenNotificationForwardsAll(data) ==
    /\ lastFrame' = data
    /\ prevFen' = currentFen
    /\ lastLevel' = IF IsBatteryFrame(data)
                    THEN [kind |-> "battery", level |-> data[3]] ELSE lastLevel
    /\ IF data = <<>>
       THEN /\ calls' = NoCalls
            /\ escaped' = FALSE
            /\ forwarded' = FALSE
            /\ UNCHANGED <<tBattery, currentFen, currentPosition, batteryLevel>>
       ELSE /\ OnBoardState(data)
            /\ forwarded' = TRUE
            /\ tBattery' = IF data[1] = BATTERY_LEVEL /\ Len(data) >= 3
                           THEN data[3] ELSE tBattery
    /\ UNCHANGED <<listeners, respVars, cmd, codec, mgrVars, lockVars, taskVars, tVars>>

\* BleakTransport._on_fen_notification(characteristic, data): a notification
\* arrives on the board-state channel
FenNotification(data) ==
    /\ lastFrame' = data
    /\ prevFen' = currentFen
    /\ lastLevel' = IF IsBatteryFrame(data)
                    THEN [kind |-> "battery", level |-> data[3]] ELSE lastLevel
    /\ IF data = <<>>
       THEN /\ calls' = NoCalls
            /\ escaped' = FALSE
            /\ forwarded' = FALSE
            /\ UNCHANGED <<tBattery, currentFen, currentPosition, batteryLevel>>
       ELSE IF data[1] = BOARD_STATE
            THEN OnBoardState(data) /\ tBattery' = tBattery /\ forwarded' = TRUE
       ELSE IF data[1] = BATTERY_LEVEL /\ Len(data) >= 3
            THEN /\ tBattery' = data[3]
                 /\ calls' = NoCalls
                 /\ escaped' = FALSE
                 /\ forwarded' = FALSE
                 /\ UNCHANGED <<currentFen, currentPosition, batteryLevel>>
       ELSE /\ calls' = NoCalls
            /\ escaped' = FALSE
            /\ forwarded' = FALSE
            /\ UNCHANGED <<tBattery, currentFen, currentPosition, batteryLevel>>
    /\ UNCHANGED <<listeners, respVars, cmd, codec, mgrVars, lockVars, taskVars, tVars>>

\* ChessnutDriver._on_command_response(data): the first decoder that accepts
\* the frame decides which cached field is set
OnCommandResponse(data) ==
    LET fw == decode_firmware_version(data)
        power == decode_power_level(data)
        pieces == decode_move_piece_state(data)
    IN  IF fw # NoText
        THEN /\ firmwareVersion' = fw
             /\ UNCHANGED <<isCharging, batteryLevel, piecePositions>>
        ELSE IF power.ok
        THEN /\ isCharging' = IF power.charging THEN "true" ELSE "false"
             /\ batteryLevel' = power.percentage
             /\ UNCHANGED <<firmwareVersion, piecePositions>>
        ELSE /\ piecePositions' = IF pieces # <<>> THEN pieces ELSE piecePositions
             /\ UNCHANGED <<firmwareVersion, isCharging, batteryLevel>>

\* BleakTransport._on_command_notification(characteristic, data): a
\* notification arrives on the command-response channel
CommandNotification(data) ==
    /\ lastResponse' = data
    /\ prevPieces' = piecePositions
    /\ lastLevel' = IF IsPowerFrame(data)
                    THEN [kind |-> "power", level |-> data[5]] ELSE lastLevel
    /\ IF data = <<>>
       THEN UNCHANGED <<firmwareVersion, isCharging, batteryLevel, piecePositions>>
       ELSE OnCommandResponse(data)
    /\ UNCHANGED <<tBattery, listeners, currentFen, currentPosition, lastFrame,
                   prevFen, calls, escaped, forwarded, cmd, codec, mgrVars,
                   lockVars, taskVars, tVars>>

\* ---------------------------------------------------------------- commands
\* The commands that return nothing: their callers discard send_command's result
Requests == {"request_battery_level", "request_firmware_version", "request_piece_state"}

\* what the command reports for send_command's result r
Reported(name, r) == IF name \in Requests THEN "none" ELSE r

\* The command of caller c returns r without suspending.
CommandReturns(c, rec, r) ==
    /\ cmd' = [rec EXCEPT !.returned = r]
    /\ result' = [result EXCEPT ![c] = <<rec.name, r>>]
    /\ UNCHANGED <<pc, op>>

\* send_command without its connection check: the write is always issued
TransportSendUnguarded(c, rec, data) ==
    /\ cmd' = [rec EXCEPT !.writes = @ + 1, !.write = "pending",
                           !.client = client, !.frame = data]
    /\ pc' = [pc EXCEPT ![c] = "cmd_write"]
    /\ op' = [op EXCEPT ![c] = rec.name]
    /\ result' = [result EXCEPT ![c] = NoResult]

\* BleakTransport.send_command(data) lines 185-191: False at once unless
\* connected, else write_gatt_char is awaited
TransportSend(c, rec, data) ==
    IF ~is_connected \/ client = NoClient
    THEN CommandReturns(c, rec, Reported(rec.name, "false"))
    ELSE /\ cmd' = [rec EXCEPT !.writes = @ + 1, !.write = "pending",
                                !.client = client, !.frame = data]
         /\ pc' = [pc EXCEPT ![c] = "cmd_write"]
         /\ op' = [op EXCEPT ![c] = rec.name]
         /\ result' = [result EXCEPT ![c] = NoResult]

\* A command starts: the caller is idle (one command is in flight at a time)
CommandStarts(c) == pc[c] = "idle" /\ cmd.write # "pending"

NewCmd(name, arg) ==
    [NoCmd EXCEPT !.name = name, !.arg = arg, !.connected = is_connected]

OnlyCommand ==
    UNCHANGED <<mgrVars, lockVars, tVars, tBattery, listeners, currentFen,
                currentPosition, batteryLevel, lastFrame, prevFen, calls,
                escaped, obsVars, respVars, codec>>

\* set_position calls drawn as inputs (FEN, force): two legal FENs, an empty
\* text, a board with an unknown letter, a board with two digits in a row
PositionArgs ==
    {<<<<"r", "n", "b", "q", "k", "b", "n", "r", "/", "p", "p", "p", "p", "p", "p", "p", "p", "/", "8", "/", "8", "/", "8", "/", "8", "/", "P", "P", "P", "P", "P", "P", "P", "P", "/", "R", "N", "B", "Q", "K", "B", "N", "R", " ", "w", " ", "K", "Q", "k", "q", " ", "-", " ", "0", " ", "1">>,
       FALSE>>,
     <<<<"r", "n", "b", "q", "k", "b", "n", "r", "/", "p", "p", "p", "p", "p", "p", "p", "p", "/", "8", "/", "8", "/", "8", "/", "8", "/", "P", "P", "P", "P", "P", "P", "P", "P", "/", "R", "N", "B", "Q", "K", "B", "N", "R", " ", "w", " ", "K", "Q", "k", "q", " ", "-", " ", "0", " ", "1">>,
       TRUE>>,
     <<<<"k", "7", "/", "8", "/", "8", "/", "8", "/", "8", "/", "8", "/", "8", "/", "7", "K">>, FALSE>>,
     <<<<>>, FALSE>>,
     <<<<"x", "7", "/", "8", "/", "8", "/", "8", "/", "8", "/", "8", "/", "8", "/", "8">>, TRUE>>,
     <<<<"4", "4", "/", "8", "/", "8", "/", "8", "/", "8", "/", "8", "/", "8", "/", "8">>, FALSE>>}

\* set_leds calls drawn as inputs (squares, color); the last one names a
\* square without a rank digit
LedArgs ==
    {<<<<>>, 1>>,
     <<<<<<"e", "4">>>>, 1>>,
     <<<<<<"a", "1">>, <<"h", "8">>>>, 2>>,
     <<<<<<"e", "x">>>>, 1>>}

\* the frame passed to send_command directly
RawFrames == {INIT_COMMAND}

\* set_position without the chess.Board check
PositionCommandUnparsed(fen, force) ==
    LET normalized == normalize_fen(fen)
    IN  IF ~normalized.ok THEN Failed
        ELSE encode_set_move_board_command(normalized.fen, force)

\* set_position lines 101-112, the try block: the frame to send, or Failed
\* when the FEN is rejected by normalize_fen, by chess.Board or by the encoder
PositionCommand(fen, force) ==
    LET normalized == normalize_fen(fen)
    IN  IF ~normalized.ok THEN Failed
        ELSE IF ~ChessBoardParses(normalized.fen) THEN Failed
        ELSE encode_set_move_board_command(normalized.fen, force)

\* the frames of the calls drawn as inputs, computed once
PositionCommands ==
    [args \in PositionArgs |-> PositionCommand(args[1], args[2])]

LedCommands ==
    [args \in LedArgs |->
        encode_led_command_from_squares(args[1], args[2])]

\* BleakTransport.send_command(data) called directly
CallSendCommand(c, data) ==
    /\ CommandStarts(c)
    /\ TransportSend(c, [NewCmd("send_command", data) EXCEPT !.valid = TRUE], data)
    /\ OnlyCommand

\* ChessnutDriver.set_position(fen, force)
CallSetPosition(c, fen, force) ==
    /\ CommandStarts(c)
    /\ LET rec == NewCmd("set_position", <<fen, force>>)
           command == PositionCommands[<<fen, force>>]
       IN  IF ~is_connected THEN CommandReturns(c, rec, "false")
           ELSE IF ~command.ok THEN CommandReturns(c, rec, "false")
           ELSE TransportSend(c, [rec EXCEPT !.valid = TRUE], command.val)
    /\ OnlyCommand

\* set_leds without its is_connected guard: the squares are encoded first
CallSetLedsUnguarded(c, squares, color) ==
    /\ CommandStarts(c)
    /\ LET rec == NewCmd("set_leds", <<squares, color>>)
           command == LedCommands[<<squares, color>>]
       IN  IF ~command.ok THEN CommandReturns(c, rec, "raised")
           ELSE TransportSend(c, [rec EXCEPT !.valid = TRUE], command.val)
    /\ OnlyCommand

\* ChessnutDriver.set_leds(squares, color): an error of the encoder propagates
CallSetLeds(c, squares, color) ==
    /\ CommandStarts(c)
    /\ LET rec == NewCmd("set_leds", <<squares, color>>)
           command == LedCommands[<<squares, color>>]
       IN  IF ~is_connected THEN CommandReturns(c, rec, "false")
           ELSE IF ~command.ok THEN CommandReturns(c, rec, "raised")
           ELSE TransportSend(c, [rec EXCEPT !.valid = TRUE], command.val)
    /\ OnlyCommand

\* clear_leds(), beep(), set_buzzer_enabled(enable): False unless connected,
\* else the frame is sent
GuardedSend(c, name, arg, data) ==
    /\ CommandStarts(c)
    /\ LET rec == NewCmd(name, arg)
       IN  IF ~is_connected THEN CommandReturns(c, rec, "false")
           ELSE TransportSend(c, [rec EXCEPT !.valid = TRUE], data)
    /\ OnlyCommand

CallClearLeds(c) == GuardedSend(c, "clear_leds", <<>>, encode_clear_leds_command)

CallBeep(c) == GuardedSend(c, "beep", <<>>, encode_buzzer_beep)

CallSetBuzzerEnabled(c, enable) ==
    GuardedSend(c, "set_buzzer_enabled", <<enable>>, encode_buzzer_enable(enable))

\* A request that drops the cached values it asks for until the answer arrives
RequestSendInvalidates(c, name, data) ==
    /\ CommandStarts(c)
    /\ LET rec == NewCmd(name, <<>>)
       IN  IF is_connected
           THEN TransportSend(c, [rec EXCEPT !.valid = TRUE], data)
           ELSE CommandReturns(c, rec, "none")
    /\ batteryLevel' = IF name = "request_battery_level" THEN NoLevel ELSE batteryLevel
    /\ firmwareVersion' =
          IF name = "request_firmware_version" THEN NoText ELSE firmwareVersion
    /\ piecePositions' = IF name = "request_piece_state" THEN <<>> ELSE piecePositions
    /\ UNCHANGED <<mgrVars, lockVars, tVars, tBattery, listeners, currentFen,
                   currentPosition, lastFrame, prevFen, calls, escaped, obsVars,
                   isCharging, lastResponse, prevPieces, codec>>

\* request_battery_level(), request_firmware_version(), request_piece_state():
\* the frame is sent if connected; nothing is returned
RequestSend(c, name, data) ==
    /\ CommandStarts(c)
    /\ LET rec == NewCmd(name, <<>>)
       IN  IF is_connected
           THEN TransportSend(c, [rec EXCEPT !.valid = TRUE], data)
           ELSE CommandReturns(c, rec, "none")
    /\ OnlyCommand

CallRequestBatteryLevel(c) ==
    RequestSend(c, "request_battery_level", encode_get_power_level)

CallRequestFirmwareVersion(c) ==
    RequestSend(c, "request_firmware_version", encode_get_firmware_version)

CallRequestPieceState(c) ==
    RequestSend(c, "request_piece_state", encode_get_move_piece_state)

\* send_command lines 189-195: write_gatt_char finished; True, or False if it
\* raised
CommandWriteDone(c) ==
    /\ pc[c] = "cmd_write"
    /\ \E outcome \in (IF cmd.client \in linkUp THEN {"ok", "error"} ELSE {"error"}) :
         LET r == Reported(cmd.name, IF outcome = "ok" THEN "true" ELSE "false")
         IN  /\ cmd' = [cmd EXCEPT !.write = outcome, !.returned = r]
             /\ result' = [result EXCEPT ![c] = <<cmd.name, r>>]
    /\ pc' = [pc EXCEPT ![c] = "idle"]
    /\ op' = [op EXCEPT ![c] = "none"]
    /\ OnlyCommand

\* ------------------------------------------------------------------ inputs
\* ranks of a board: 8 squares each, digits and piece letters
LegalRanks ==
    {<<"8">>,
     <<"k", "7">>,
     <<"7", "K">>,
     <<"r", "n", "b", "q", "k", "b", "n", "r">>,
     <<"p", "p", "p", "p", "p", "p", "p", "p">>,
     <<"P", "P", "P", "P", "P", "P", "P", "P">>,
     <<"R", "N", "B", "Q", "K", "B", "N", "R">>,
     <<"4", "P", "3">>,
     <<"1", "n", "1", "B", "1", "q", "1", "Q">>,
     <<"R", "6", "r">>,
     <<"2", "b", "N", "2", "p", "1">>,
     <<"3", "q", "k", "3">>}

RECURSIVE JoinRanks(_, _)
\* the board field made of the ranks from rank i on
JoinRanks(ranks, i) ==
    IF i = 8 THEN ranks[8] ELSE ranks[i] \o <<"/">> \o JoinRanks(ranks, i + 1)

\* the boards with at most two ranks that are not empty
TwoRankBoards ==
    {JoinRanks([k \in 1..8 |-> IF k = i THEN r1 ELSE IF k = j THEN r2 ELSE <<"8">>], 1) :
        i \in 1..8, j \in 1..8, r1 \in LegalRanks, r2 \in LegalRanks}

\* FENs with further fields after the board
TailedFens ==
    {<<"r", "n", "b", "q", "k", "b", "n", "r", "/", "p", "p", "p", "p", "p", "p", "p", "p", "/", "8", "/", "8", "/", "8", "/", "8", "/", "P", "P", "P", "P", "P", "P", "P", "P", "/", "R", "N", "B", "Q", "K", "B", "N", "R", " ", "w", " ", "K", "Q", "k", "q", " ", "-", " ", "0", " ", "1">>,
     <<"k", "7", "/", "8", "/", "8", "/", "8", "/", "8", "/", "8", "/", "8", "/", "7", "K", " ", "b", " ", "-", " ", "-", " ", "3", " ", "4", "0">>,
     <<"8", "/", "8", "/", "8", "/", "3", "p", "4", "/", "8", "/", "8", "/", "8", "/", "R", "6", "r", " ", "b">>}

\* texts that are no FEN of a board
MalformedFens ==
    {<<>>,
     <<" ", " ">>,
     <<"8", "/", "8">>,
     <<"8", "/", "8", "/", "8", "/", "8", "/", "8", "/", "8", "/", "8", "/", "8", "/", "8">>,
     <<"p", "p", "p", "p", "p", "p", "p", "p", "p", "/", "8", "/", "8", "/", "8", "/", "8", "/", "8", "/", "8", "/", "8">>,
     <<"4", "4", "/", "8", "/", "8", "/", "8", "/", "8", "/", "8", "/", "8", "/", "8">>,
     <<"x", "7", "/", "8", "/", "8", "/", "8", "/", "8", "/", "8", "/", "8", "/", "8">>,
     <<"9", "/", "8", "/", "8", "/", "8", "/", "8", "/", "8", "/", "8", "/", "8">>,
     <<"7", "/", "8", "/", "8", "/", "8", "/", "8", "/", "8", "/", "8", "/", "8">>,
     <<"8", "/", "8", "/", "8", "/", "8", "/", "8", "/", "8", "/", "8", "/", "7">>,
     <<"8", "/", "8", "/", "8", "/", "8", "/", "8", "/", "8", "/", "8", "/", "8", "p">>,
     <<"0", "k", "7", "/", "8", "/", "8", "/", "8", "/", "8", "/", "8", "/", "8", "/", "8">>,
     <<"8", "/", "8", "/", "8", "/", "8", "/", "8", "/", "8", "/", "8", "/", "8", " ", "x", " ", "K", "Q", "k", "q", " ", "-", " ", "0", " ", "1">>}

\* texts of 0 to 8 fields, some with leading, trailing and repeated separators
FieldFens ==
    {<<"8", "/", "8", "/", "8", "/", "8", "/", "8", "/", "8", "/", "8", "/", "k", "7", " ", "b">>,
     <<"8", "/", "8", "/", "8", "/", "8", "/", "8", "/", "8", "/", "8", "/", "k", "7", " ", "b", " ", "K", "q">>,
     <<"8", "/", "8", "/", "8", "/", "8", "/", "8", "/", "8", "/", "8", "/", "k", "7", " ", "b", " ", "K", "q", " ", "e", "3">>,
     <<"8", "/", "8", "/", "8", "/", "8", "/", "8", "/", "8", "/", "8", "/", "k", "7", " ", "b", " ", "K", "q", " ", "e", "3", " ", "7">>,
     <<"8", "/", "8", "/", "8", "/", "8", "/", "8", "/", "8", "/", "8", "/", "k", "7", " ", "b", " ", "K", "q", " ", "e", "3", " ", "7", " ", "9">>,
     <<" ", " ", "8", "/", "8", "/", "8", "/", "8", "/", "8", "/", "8", "/", "8", "/", "k", "7", " ", " ", "b", " ">>,
     <<"\t", "8", "/", "8", "/", "8", "/", "8", "/", "8", "/", "8", "/", "8", "/", "k", "7", " ", "w", " ", "-", " ", "-", "\n">>,
     <<" ", "8", "/", "8", "/", "8", "/", "8", "/", "8", "/", "8", "/", "8", "/", "k", "7", " ", " ", "b", " ", "K", "q", " ", "e", "3", " ", "7", " ", "9", " ">>,
     <<"a", " ", "b", " ", "c", " ", "d", " ", "e", " ", "f", " ", "g">>,
     <<"a", " ", "b", " ", "c", " ", "d", " ", "e", " ", "f", " ", "g", " ", "h">>,
     <<"x">>,
     <<"\t", " ", "\n">>}

FenInputs == TwoRankBoards \cup TailedFens \cup MalformedFens \cup FieldFens

\* a 40-byte board-state frame
LongFrame == BoardFrame(KingPawnPayload, <<0, 0, 0, 0, 5, 6>>)

FrameInputs == TestFrames \cup {LongFrame}

\* a piece-state frame body: piece idx at (idx mod 8, idx mod 5 + shift) with
\* battery 90 - idx
PieceBytes(shift) ==
    [i \in 1..(4 * NUM_ROBOTIC_PIECES - 1) |->
        LET idx == (i - 1) \div 4
            field == (i - 1) % 4
        IN  CASE field = 0 -> idx % 8
              [] field = 1 -> (idx % 5) + shift
              [] field = 2 -> 90 - idx
              [] OTHER -> 0]

\* frames arriving on the command-response channel: power levels (charging
\* byte 0, 1 and 2), a power frame one byte short, power payloads under another
\* tag and another subtype, firmware versions (one padded with NULs, one with
\* length byte 0, one longer than the frame), piece states of 139 bytes (two
\* of them, one under the board-state tag, one with the power subtype), a
\* piece state one byte short, and the empty frame
ResponseFrames ==
    {<<COMMAND_RESPONSE, 3, POWER_LEVEL, 1, 80>>,
     <<COMMAND_RESPONSE, 3, POWER_LEVEL, 0, 55>>,
     <<COMMAND_RESPONSE, 3, POWER_LEVEL, 2, 100>>,
     <<COMMAND_RESPONSE, 3, POWER_LEVEL, 1>>,
     <<BOARD_STATE, 3, POWER_LEVEL, 1, 80>>,
     <<COMMAND_RESPONSE, 3, MOVE_PIECE_STATE, 1, 80>>,
     <<COMMAND_RESPONSE, 4, FIRMWARE_VERSION, 49, 46, 50>>,
     <<COMMAND_RESPONSE, 6, FIRMWARE_VERSION, 0, 49, 46, 51, 0>>,
     <<COMMAND_RESPONSE, 0, FIRMWARE_VERSION, 49>>,
     <<COMMAND_RESPONSE, 9, FIRMWARE_VERSION, 49, 46, 50>>,
     <<COMMAND_RESPONSE, 137, MOVE_PIECE_STATE, 0>> \o PieceBytes(0),
     <<COMMAND_RESPONSE, 137, MOVE_PIECE_STATE, 0>> \o PieceBytes(1),
     <<BOARD_STATE, 137, MOVE_PIECE_STATE, 0>> \o PieceBytes(2),
     <<COMMAND_RESPONSE, 137, POWER_LEVEL, 1>> \o PieceBytes(3),
     SubSeq(<<COMMAND_RESPONSE, 137, MOVE_PIECE_STATE, 0>> \o PieceBytes(0), 1, 138),
     <<>>}

\* lists of square names passed to encode_led_command_from_squares: every
\* single square in lower case, the pair of the specification's example,
\* opposite corners, upper case, a repeated square, the four centre squares,
\* a whole rank, names with a trailing character, a name of one character,
\* ranks 0 and 9, a file outside a..h, a name without a rank digit, and the
\* empty list
SingleSquares == {<<<<Files[f], DigitChars[k + 1]>>>> : f \in 1..8, k \in 1..8}

SquareLists ==
    SingleSquares \cup
    {<<>>,
     <<<<"e", "2">>, <<"e", "4">>>>,
     <<<<"a", "1">>, <<"h", "8">>>>,
     <<<<"A", "1">>, <<"H", "8">>>>,
     <<<<"e", "4">>, <<"e", "4">>>>,
     <<<<"d", "4">>, <<"e", "4">>, <<"d", "5">>, <<"e", "5">>>>,
     <<<<"a", "3">>, <<"b", "3">>, <<"c", "3">>, <<"d", "3">>, <<"e", "3">>,
       <<"f", "3">>, <<"g", "3">>, <<"h", "3">>>>,
     <<<<"e", "4", "+">>>>,
     <<<<"e">>, <<"c", "6">>>>,
     <<<<"e", "0">>>>,
     <<<<"e", "9">>>>,
     <<<<"z", "4">>>>,
     <<<<"e", "x">>>>}

\* ------------------------------------------------------- codec applications
\* A codec function is pure: applying it changes nothing else.
OnlyCodec ==
    UNCHANGED <<mgrVars, lockVars, taskVars, tVars, tBattery, listeners,
                currentFen, currentPosition, batteryLevel, lastFrame, prevFen,
                calls, escaped, obsVars, respVars, cmd>>

\* encode_led_command_from_squares(squares, color) applied to the input
ApplyLedEncode(color) ==
    /\ codec.fn = "squares"
    /\ codec' = [codec EXCEPT !.fn = "led", !.color = color,
                              !.out = encode_led_command_from_squares(codec.arg, color)]
    /\ OnlyCodec

\* encode_set_move_board_command(fen, force) applied to the input
ApplyEncode(force) ==
    /\ codec.fn = "fen"
    /\ codec' = [codec EXCEPT !.fn = "encode", !.force = force,
                               !.out = encode_set_move_board_command(codec.arg, force)]
    /\ OnlyCodec

\* decode_board_state applied to the frame the encoder returned
DecodeEncoded ==
    /\ codec.fn = "encode" /\ codec.out.ok
    /\ codec' = [codec EXCEPT !.fn = "encode_decode", !.mid = codec.out.val,
                               !.out = decode_board_state(codec.out.val)]
    /\ OnlyCodec

\* the 32 board bytes of a SYNC command in a board-state notification: header
\* 0x01 0x24, the board bytes, four more bytes
AsBoardState(command) == <<BOARD_STATE, 36>> \o SubSeq(command, 3, 34) \o <<0, 0, 0, 0>>

\* decode_board_state applied to the encoder's board bytes in a board-state frame
DecodeReframed ==
    /\ codec.fn = "encode" /\ codec.out.ok
    /\ codec' = [codec EXCEPT !.fn = "reframe_decode", !.mid = codec.out.val,
                               !.out = decode_board_state(AsBoardState(codec.out.val))]
    /\ OnlyCodec

\* normalize_fen applied to the input
ApplyNormalize ==
    /\ codec.fn = "fen"
    /\ codec' = [codec EXCEPT !.fn = "normalize", !.out = normalize_fen(codec.arg)]
    /\ OnlyCodec

\* normalize_fen applied to its own result
NormalizeAgain ==
    /\ codec.fn = "normalize" /\ codec.out.ok
    /\ codec' = [codec EXCEPT !.fn = "normalize_twice", !.mid = codec.out.fen,
                               !.out = normalize_fen(codec.out.fen)]
    /\ OnlyCodec

\* decode_board_state applied to the input
ApplyDecode ==
    /\ codec.fn = "frame"
    /\ codec' = [codec EXCEPT !.fn = "decode", !.out = decode_board_state(codec.arg)]
    /\ OnlyCodec

\* ------------------------------------------------------------ specification
\* ChessnutDriver.__init__ and BleakTransport.__init__
InitDriver ==
    /\ tBattery = NoLevel
    /\ currentFen = NoFen
    /\ currentPosition = NoFen
    /\ batteryLevel = NoLevel
    /\ lastFrame = NoFrame
    /\ prevFen = NoFen
    /\ calls = NoCalls
    /\ escaped = FALSE
    /\ forwarded = FALSE
    /\ lastLevel = [kind |-> "none", level |-> NoLevel]
    /\ firmwareVersion = NoText
    /\ isCharging = "none"
    /\ piecePositions = <<>>
    /\ lastResponse = NoFrame
    /\ prevPieces = <<>>
    /\ cmd = NoCmd

\* DriverManager.__init__ over a fresh ChessnutDriver and BleakTransport, with
\* auto-connect configured off or on (and then the loop task already created)
InitManager ==
    /\ enabled \in BOOLEAN
    /\ mgrTask = IF enabled THEN 101 ELSE NoTask
    /\ lockHolder = NoTask
    /\ lockWaiters = <<>>
    /\ pc = [t \in Tasks |->
               IF t \in Callers THEN "idle"
               ELSE IF enabled /\ t = 101 THEN "start" ELSE "unused"]
    /\ op = [c \in Callers |-> "none"]
    /\ result = [c \in Callers |-> NoResult]
    /\ awaited = [c \in Callers |-> NoTask]
    /\ cancelReq = [t \in Loops |-> FALSE]
    /\ disabledSince = FALSE
    /\ lastRound = [t \in Loops |-> "none"]
    /\ client = NoClient
    /\ device = FALSE
    /\ connected = FALSE
    /\ linkUp = {}
    /\ setupLog = <<>>
    /\ teardown = "none"
    /\ dropped = FALSE
    /\ InitDriver

Init ==
    /\ InitManager
    /\ listeners = [i \in 1..NumListeners |-> "ok"]
    /\ codec = NoCodec

Next ==
    \/ \E c \in Callers : CallConnect(c)
    \/ \E c \in Callers : CallDisconnect(c)
    \/ \E c \in Callers : \E b \in BOOLEAN : CallSetAutoConnect(c, b)
    \/ \E c \in Callers : CallShutdown(c)
    \/ \E c \in Callers : CallerLockAcquired(c)
    \/ \E c \in Callers : DisconnectDone(c)
    \/ \E c \in Callers : StopWaitDone(c)
    \/ \E t \in Loops : LoopIterate(t)
    \/ \E t \in Loops : LoopLockAcquired(t)
    \/ \E t \in Loops : LoopCancelled(t)
    \/ \E t \in Tasks : TransportStep(t)
    \/ LinkDrop

Spec == Init /\ [][Next]_vars

\* One scheduled step of task t: the event loop runs every task that is ready,
\* timers expire and platform calls end.
TaskStep(t) ==
    \/ TransportStep(t)
    \/ IF t \in Callers
       THEN CallerLockAcquired(t) \/ DisconnectDone(t) \/ StopWaitDone(t)
       ELSE LoopIterate(t) \/ LoopLockAcquired(t) \/ LoopCancelled(t)

\* The manager configured with auto-connect on and the flag left alone: the
\* callers only connect and disconnect. Every task that is ready is run.
AutoConnectNext ==
    \/ \E c \in Callers : CallConnect(c)
    \/ \E c \in Callers : CallDisconnect(c)
    \/ \E c \in Callers : CallerLockAcquired(c)
    \/ \E c \in Callers : DisconnectDone(c)
    \/ \E t \in Loops : LoopIterate(t)
    \/ \E t \in Loops : LoopLockAcquired(t)
    \/ \E t \in Tasks : TransportStep(t)
    \/ LinkDrop

AutoConnectInit == Init /\ enabled

AutoConnectSpec ==
    /\ AutoConnectInit
    /\ [][AutoConnectNext]_vars
    /\ \A t \in Tasks : WF_vars(TaskStep(t))

\* The callers of a server that is shutting down: once shutdown() has been
\* called, nobody calls connect() or set_auto_connect(True) any more.
ShutdownRunning == \E c \in Callers : op[c] = "shutdown"

ShutdownNext ==
    \/ \E c \in Callers : ~ShutdownRunning /\ CallConnect(c)
    \/ \E c \in Callers : CallDisconnect(c)
    \/ \E c \in Callers : ~ShutdownRunning /\ CallSetAutoConnect(c, TRUE)
    \/ \E c \in Callers : CallSetAutoConnect(c, FALSE)
    \/ \E c \in Callers : CallShutdown(c)
    \/ \E c \in Callers : CallerLockAcquired(c)
    \/ \E c \in Callers : DisconnectDone(c)
    \/ \E c \in Callers : StopWaitDone(c)
    \/ \E t \in Loops : LoopIterate(t)
    \/ \E t \in Loops : LoopLockAcquired(t)
    \/ \E t \in Loops : LoopCancelled(t)
    \/ \E t \in Tasks : TransportStep(t)
    \/ LinkDrop

ShutdownSpec == Init /\ [][ShutdownNext]_vars

\* The driver with its listeners registered (each one returning normally or
\* raising), fed with notifications on the board-state channel.
DriverInit ==
    /\ InitManager
    /\ ~enabled
    /\ listeners \in [1..NumListeners -> {"ok", "raises"}]
    /\ codec = NoCodec

DriverNext == \E data \in TestFrames : FenNotification(data)

DriverSpec == DriverInit /\ [][DriverNext]_vars

\* The driver fed with notifications on the command-response channel.
ResponseInit == Init /\ ~enabled

ResponseNext == \E data \in ResponseFrames : CommandNotification(data)

ResponseSpec == ResponseInit /\ [][ResponseNext]_vars

\* frames of the board-state channel fed to the status model: two battery
\* levels, a battery frame one byte short, a board, and the empty frame
StatusFrames ==
    {<<BATTERY_LEVEL, 0, 80>>,
     <<BATTERY_LEVEL, 0, 15>>,
     <<BATTERY_LEVEL, 0>>,
     BoardFrame(StartPayload, <<0, 0, 0, 0>>),
     <<>>}

\* frames of the command-response channel fed to the status model: power
\* levels 80 (charging), 55 and 0, and a firmware version
StatusResponses ==
    {<<COMMAND_RESPONSE, 3, POWER_LEVEL, 1, 80>>,
     <<COMMAND_RESPONSE, 3, POWER_LEVEL, 0, 55>>,
     <<COMMAND_RESPONSE, 3, POWER_LEVEL, 0, 0>>,
     <<COMMAND_RESPONSE, 4, FIRMWARE_VERSION, 49, 46, 50>>}

\* The driver fed with notifications on both channels, in any order.
StatusInit == Init /\ ~enabled

StatusNext ==
    \/ \E data \in StatusFrames : FenNotification(data)
    \/ \E data \in StatusResponses : CommandNotification(data)

StatusSpec == StatusInit /\ [][StatusNext]_vars

\* The codec functions applied to inputs: a FEN text or a frame is drawn, and
\* the functions are applied to it.
CodecInit ==
    /\ InitManager
    /\ ~enabled
    /\ listeners = [i \in 1..NumListeners |-> "ok"]
    /\ \/ \E fen \in FenInputs : codec = [NoCodec EXCEPT !.fn = "fen", !.arg = fen]
       \/ \E data \in FrameInputs : codec = [NoCodec EXCEPT !.fn = "frame", !.arg = data]
       \/ \E squares \in SquareLists :
            codec = [NoCodec EXCEPT !.fn = "squares", !.arg = squares]

CodecNext ==
    \/ \E force \in BOOLEAN : ApplyEncode(force)
    \/ DecodeEncoded
    \/ DecodeReframed
    \/ ApplyNormalize
    \/ NormalizeAgain
    \/ ApplyDecode
    \/ \E color \in LEDColors : ApplyLedEncode(color)

CodecSpec == CodecInit /\ [][CodecNext]_vars

\* Explicit connect() and disconnect() calls, link drops, and the commands of
\* the driver and of the transport issued in every connection state by one
\* task, while it and the other callers connect and disconnect; auto-connect
\* is off.
Commander == CHOOSE c \in Callers : TRUE

CommandInit == Init /\ ~enabled

CommandNext ==
    \/ \E c \in Callers : CallConnect(c)
    \/ \E c \in Callers : CallDisconnect(c)
    \/ \E c \in Callers : CallerLockAcquired(c)
    \/ \E c \in Callers : DisconnectDone(c)
    \/ \E c \in Callers : TransportStep(c)
    \/ LinkDrop
    \/ \E data \in RawFrames : CallSendCommand(Commander, data)
    \/ \E args \in PositionArgs : CallSetPosition(Commander, args[1], args[2])
    \/ \E args \in LedArgs : CallSetLeds(Commander, args[1], args[2])
    \/ CallClearLeds(Commander)
    \/ CallBeep(Commander)
    \/ \E enable \in BOOLEAN : CallSetBuzzerEnabled(Commander, enable)
    \/ CallRequestBatteryLevel(Commander)
    \/ CallRequestFirmwareVersion(Commander)
    \/ CallRequestPieceState(Commander)
    \/ CommandWriteDone(Commander)

CommandSpec == CommandInit /\ [][CommandNext]_vars

\* The platform delivers notifications of a channel while the link is open and
\* start_notify succeeded for the channel on the current client.
Subscribed(channel) ==
    /\ client # NoClient
    /\ client \in linkUp
    /\ \E i \in 1..Len(setupLog) : setupLog[i] = channel

\* responses to the three requests: a power level, a firmware version, a
\* piece state
RequestResponses ==
    {<<COMMAND_RESPONSE, 3, POWER_LEVEL, 1, 80>>,
     <<COMMAND_RESPONSE, 4, FIRMWARE_VERSION, 49, 46, 50>>,
     <<COMMAND_RESPONSE, 137, MOVE_PIECE_STATE, 0>> \o PieceBytes(0)}

\* One task connects, disconnects and issues the three requests, the link may
\* drop, and responses arrive on the command-response channel while it is
\* subscribed, whether or not they were requested, as does a battery frame on
\* the board-state channel; auto-connect is off.
RequestInit == Init /\ ~enabled

RequestNext ==
    \/ CallConnect(Commander)
    \/ CallDisconnect(Commander)
    \/ DisconnectDone(Commander)
    \/ TransportStep(Commander)
    \/ LinkDrop
    \/ CallRequestBatteryLevel(Commander)
    \/ CallRequestFirmwareVersion(Commander)
    \/ CallRequestPieceState(Commander)
    \/ CommandWriteDone(Commander)
    \/ \E data \in RequestResponses : Subscribed("cmd") /\ CommandNotification(data)
    \/ Subscribed("fen") /\ FenNotification(<<BATTERY_LEVEL, 0, 15>>)

RequestSpec == RequestInit /\ [][RequestNext]_vars

\* A session of every command operation of the server (one caller, the
\* auto-connect loops, link drops) with a board frame and a power answer
\* arriving while their channels are subscribed, so that the driver's cache
\* is filled when the commands run.
SessionPositionArgs ==
    {CHOOSE a \in PositionArgs : PositionCommands[a].ok /\ ~a[2]}

SessionLedArgs == {<<<<<<"e", "4">>>>, 1>>}

SessionNext ==
    \/ CallConnect(Commander)
    \/ CallDisconnect(Commander)
    \/ \E b \in BOOLEAN : CallSetAutoConnect(Commander, b)
    \/ CallShutdown(Commander)
    \/ CallerLockAcquired(Commander)
    \/ DisconnectDone(Commander)
    \/ StopWaitDone(Commander)
    \/ \E t \in Loops : LoopIterate(t)
    \/ \E t \in Loops : LoopLockAcquired(t)
    \/ \E t \in Loops : LoopCancelled(t)
    \/ \E t \in Tasks : TransportStep(t)
    \/ LinkDrop
    \/ \E args \in SessionPositionArgs :
           CallSetPosition(Commander, args[1], args[2])
    \/ \E args \in SessionLedArgs : CallSetLeds(Commander, args[1], args[2])
    \/ CallClearLeds(Commander)
    \/ CallBeep(Commander)
    \/ CallSetBuzzerEnabled(Commander, TRUE)
    \/ CommandWriteDone(Commander)
    \/ Subscribed("fen")
          /\ FenNotification(BoardFrame(KingPawnPayload, <<0, 0, 0, 0>>))
    \/ Subscribed("cmd")
          /\ CommandNotification(<<COMMAND_RESPONSE, 3, POWER_LEVEL, 1, 80>>)

\* The server starts with auto-connect configured on.
SessionSpec == AutoConnectInit /\ [][SessionNext]_vars

\* A platform call awaited without a timeout never completes: the task stays
\* suspended in it. client.disconnect() (ble.py line 204), write_gatt_char
\* (line 189), start_notify (lines 149, 151) and request_mtu (line 140) are
\* awaited bare; client.connect() is under wait_for (line 107) and the scan is
\* timed (line 76), so those two end on their own.
StallPcs ==
    {"predisc", "disc", "rbdisc", "mtu", "sub_fen", "sub_cmd", "init_write",
     "cfg_write"}

PlatformStalls(t) ==
    /\ pc[t] \in StallPcs
    /\ pc' = [pc EXCEPT ![t] = "stalled"]
    /\ UNCHANGED <<op, result, lockVars, mgrVars, tVars, drvVars>>

\* Explicit connect() and disconnect() calls over a platform whose calls may
\* never complete; auto-connect is off. Every task that is ready is run.
StallInit == Init /\ ~enabled

StallNext ==
    \/ \E c \in Callers : CallConnect(c)
    \/ \E c \in Callers : CallDisconnect(c)
    \/ \E c \in Callers : CallerLockAcquired(c)
    \/ \E c \in Callers : DisconnectDone(c)
    \/ \E c \in Callers : TransportStep(c)
    \/ \E c \in Callers : PlatformStalls(c)
    \/ LinkDrop

StallSpec ==
    /\ StallInit
    /\ [][StallNext]_vars
    /\ \A c \in Callers : WF_vars(TaskStep(c))

\* ------------------------------------------------------------------ claims
\* Task t is inside ChessnutDriver.connect() or ChessnutDriver.disconnect().
InDriver(t) == pc[t] \in ConnectPcs \cup {"disc"}

LoopAttempting == \E t \in Loops : pc[t] \in ConnectPcs

\* The link is open and every setup step succeeded on it, in order.
FullyInitialised ==
    is_connected /\ setupLog = <<"fen", "cmd", "init", "config">>

\* The step ends task t's transport connect() with outcome r.
ConnectEnds(t, r) ==
    /\ pc[t] \in ConnectPcs
    /\ pc'[t] \notin ConnectPcs \cup {"cancelled"}
    /\ r = IF pc[t] = "cfg_sleep" THEN "true"
           ELSE IF pc[t] = "scan" /\ pc'[t] = "failed" THEN "raised"
           ELSE IF pc[t] = "scan" /\ t \in Callers /\ result'[t] = <<"connect", "raised">>
                THEN "raised"
           ELSE "false"

\* The step ends caller c's shutdown() call.
ShutdownEnds(c) ==
    /\ op'[c] = "none"
    /\ op[c] = "shutdown" \/ CallShutdown(c)

\* C1: at most one connect or disconnect of the driver is in progress at any
\* time, whichever of connect(), disconnect() and the auto-reconnect loop
\* issue them.
C1_OneDriverCallAtATime == Cardinality({t \in Tasks : InDriver(t)}) <= 1

\* C1 witness: the loop is inside its connect attempt while one caller waits
\* for the lock in connect() and another in disconnect().
C1_Witness ==
    \E t \in Loops : \E c, d \in Callers :
        /\ pc[t] \in ConnectPcs
        /\ pc[c] = "lockwait" /\ op[c] = "connect"
        /\ pc[d] = "lockwait" /\ op[d] = "disconnect"

\* C2: once a set_auto_connect(False) call has returned, and for as long as
\* auto-connect stays disabled, no connect attempt of an auto-reconnect loop
\* is in progress.
C2_NoAttemptAfterDisable == disabledSince => ~LoopAttempting

\* C3: a cancelled auto-reconnect loop task neither holds the DriverManager
\* lock nor waits for it, wherever the cancellation reached it.
C3_CancelFreesLock ==
    \A t \in Loops :
        pc[t] = "cancelled" => lockHolder # t /\ Without(lockWaiters, t) = lockWaiters

\* C3 witness: a loop was cancelled inside its connect attempt (the link is
\* left connected with only the first subscription made) and a later connect()
\* of a caller has acquired the lock.
C3_Witness ==
    \E t \in Loops : \E c \in Callers :
        /\ pc[t] = "cancelled"
        /\ connected /\ setupLog = <<"fen">>
        /\ lockHolder = c /\ pc[c] = "predisc"

\* C4: every shutdown() call, made while nobody calls connect() or
\* set_auto_connect(True) afterwards, completes normally with auto-connect
\* disabled, no auto-reconnect loop alive and the link disconnected.
C4_ShutdownQuiesces ==
    [][\A c \in Callers :
          ShutdownEnds(c) =>
              /\ result'[c] = <<"shutdown", "ok">>
              /\ ~enabled'
              /\ \A t \in Loops : ~Alive(t)'
              /\ ~is_connected']_vars

\* C7: when BleakTransport.connect() returns true the link is open with both
\* subscriptions made and INIT and CONFIG written; when it returns false the
\* transport is disconnected.
C7_ConnectAllOrNothing ==
    [][\A t \in Tasks :
          /\ ConnectEnds(t, "true") => FullyInitialised'
          /\ ConnectEnds(t, "false") => ~is_connected']_vars

C9_LoopKeepsTrying == []<>(~enabled \/ is_connected \/ LoopAttempting)

\* C10: DriverManager.connect() never ends with a raised error.
C10_ConnectNeverRaises ==
    \A c \in Callers : result[c] # <<"connect", "raised">>

\* The last notification decoded to a board whose normalized full FEN differs
\* from the FEN cached before it.
Delivered == lastFrame # NoFrame

LastDecodes ==
    /\ Delivered
    /\ lastFrame # <<>>
    /\ lastFrame[1] = BOARD_STATE
    /\ decode_board_state(lastFrame).ok

LastFullFen == normalize_fen(decode_board_state(lastFrame).fen).fen

LastChanged == LastDecodes /\ LastFullFen # prevFen

\* C5: a board-state notification invokes the position-change listeners if
\* and only if it decodes to a board whose normalized full FEN differs from
\* the FEN cached before it; then each listener is invoked exactly once, and
\* otherwise none is invoked.
C5_ListenersFireOnChangeOnly ==
    Delivered =>
        \A i \in 1..NumListeners : calls[i] = IF LastChanged THEN 1 ELSE 0

\* C5 witness: a notification repeating the cached position (in a frame whose
\* other bytes differ) was dispatched and invoked no listener.
C5_Witness ==
    /\ LastDecodes
    /\ LastFullFen = prevFen
    /\ lastFrame[35] = 9
    /\ \A i \in 1..NumListeners : calls[i] = 0

\* C6: when a position change is delivered, every listener is invoked once
\* even if some listener raises, no exception leaves the dispatch, and the
\* cached FEN and position are the new ones.
C6_ListenerFailureIsolated ==
    LastChanged =>
        /\ \A i \in 1..NumListeners : calls[i] = 1
        /\ ~escaped
        /\ currentFen = LastFullFen
        /\ currentPosition = LastFullFen

\* C6 witness: a position change was delivered with the first listener
\* raising, and the listeners after it were invoked.
C6_Witness ==
    /\ LastChanged
    /\ listeners[1] = "raises"
    /\ prevFen # NoFen
    /\ \A i \in 1..NumListeners : calls[i] = 1

\* C11: a caller that holds the DriverManager lock in connect() or
\* disconnect() eventually releases it, even when a platform call underneath
\* never completes.
C11_LockAlwaysReleased ==
    \A c \in Callers : (lockHolder = c) ~> (lockHolder # c)

\* C13: once BleakTransport.disconnect() has returned, whether the platform
\* teardown succeeded, raised or was not needed, the connected flag is false
\* and the transport holds no client and no device (until a later connect()
\* creates a new client).
C13_DisconnectClearsState ==
    teardown # "none" => client = NoClient /\ ~device /\ ~connected

\* C13 witness: a caller's disconnect() has returned after a platform
\* teardown that raised.
C13_Witness ==
    /\ teardown = "error"
    /\ client = NoClient
    /\ \E c \in Callers : result[c] = <<"disconnect", "ok">>

\* The FEN names a legal board: it normalizes and the chess-rules parser
\* accepts it.
LegalFen(fen) == normalize_fen(fen).ok /\ ChessBoardParses(normalize_fen(fen).fen)

\* C16 as stated: for every legal board, decode_board_state applied to the
\* frame encode_set_move_board_command returned yields the board-only part of
\* the FEN.
C16_RoundTrip ==
    (codec.fn = "encode_decode" /\ LegalFen(codec.arg)) =>
        codec.out.ok /\ codec.out.fen = board_only_fen(codec.arg).val

\* C16 amended: for every legal board, the 32 board bytes of the frame
\* encode_set_move_board_command returned, carried in a board-state frame
\* (header 0x01 0x24, 38 bytes), decode to the board-only part of the FEN.
C16_BoardBytesRoundTrip ==
    /\ (codec.fn = "encode" /\ LegalFen(codec.arg)) => codec.out.ok
    /\ (codec.fn = "reframe_decode" /\ LegalFen(codec.arg)) =>
          codec.out.ok /\ codec.out.fen = board_only_fen(codec.arg).val

\* C16 witness: the board bytes encoded from a position with pieces in odd
\* and even columns were decoded back to its board field.
C16_Witness ==
    /\ codec.fn = "reframe_decode"
    /\ codec.arg = JoinRanks([k \in 1..8 |-> IF k = 2 THEN <<"1", "n", "1", "B", "1", "q", "1", "Q">>
                                              ELSE IF k = 7 THEN <<"R", "6", "r">>
                                              ELSE <<"8">>], 1)
    /\ codec.out.ok
    /\ codec.out.fen = codec.arg

\* C17: normalize_fen succeeds exactly on the inputs of 1 to 6 fields, and
\* applied to its own result it returns that result unchanged.
C17_NormalizeIdempotent ==
    /\ codec.fn = "normalize" => (codec.out.ok <=> Len(Split(codec.arg)) \in 1..6)
    /\ codec.fn = "normalize_twice" => codec.out.ok /\ codec.out.fen = codec.mid

\* C17 witness: a three-field input with leading and repeated separators was
\* normalized to a different text, which the second application returned
\* unchanged.
C17_Witness ==
    /\ codec.fn = "normalize_twice"
    /\ Len(Split(codec.arg)) = 3
    /\ codec.mid # codec.arg
    /\ codec.out.ok /\ codec.out.fen = codec.mid

\* The piece code of the square in row r (0 = rank 8), column c (0 = a-file)
\* of the board the FEN names.
SquareCode(fen, r, c) == PieceToValue(fen_to_board_array(fen).val[r + 1][c + 1])

\* C18: a frame returned by encode_set_move_board_command has 35 bytes, byte 0
\* = 0x42, byte 1 = 0x21, and for every row r and column pair p the byte at
\* index r*4 + (3-p) + 2 holds the code of square (r, 2p) in its high nibble
\* and the code of square (r, 2p+1) in its low nibble, each code in 0..12.
C18_FrameLayout ==
    (codec.fn = "encode" /\ codec.out.ok) =>
        /\ Len(codec.out.val) = 35
        /\ codec.out.val[1] = 66
        /\ codec.out.val[2] = 33
        /\ \A r \in 0..7 : \A p \in 0..3 :
              LET byte == codec.out.val[r * 4 + (3 - p) + 2 + 1]
              IN  /\ byte \div 16 = SquareCode(codec.arg, r, 2 * p)
                  /\ byte % 16 = SquareCode(codec.arg, r, 2 * p + 1)
                  /\ byte \div 16 \in 0..12
                  /\ byte % 16 \in 0..12

\* C18 witness: the starting position was encoded; the byte of row 0, column
\* pair 0 (index 5) holds the black rook and knight, that of column pair 3
\* (index 2) the black knight and rook.
C18_Witness ==
    /\ codec.fn = "encode"
    /\ codec.out.ok
    /\ Len(Split(codec.arg)) = 6
    /\ codec.out.val[5 + 1] = 8 * 16 + 5
    /\ codec.out.val[2 + 1] = 5 * 16 + 8

\* C19: the frames encoded from one FEN with force = TRUE and with force =
\* FALSE are equal at every index except 34, which holds 0 in the first and 1
\* in the second (and the encoder fails for both or for neither).
C19_ForceByteOnly ==
    codec.fn = "encode" =>
        LET other == encode_set_move_board_command(codec.arg, ~codec.force)
        IN  /\ codec.out.ok = other.ok
            /\ codec.out.ok =>
                  /\ \A i \in 1..34 : codec.out.val[i] = other.val[i]
                  /\ codec.out.val[35] = IF codec.force THEN 0 ELSE 1
                  /\ other.val[35] = IF codec.force THEN 1 ELSE 0

\* C19 witness: a position was encoded with force = FALSE and byte 34 is 1.
C19_Witness ==
    /\ codec.fn = "encode"
    /\ ~codec.force
    /\ codec.out.ok
    /\ codec.out.val[35] = 1
    /\ codec.out.val[3] # 0

\* decode_board_state was applied: to which frame
DecodeApplied == codec.fn \in {"decode", "encode_decode", "reframe_decode"}

DecodedFrame ==
    IF codec.fn = "decode" THEN codec.arg
    ELSE IF codec.fn = "encode_decode" THEN codec.mid
    ELSE AsBoardState(codec.mid)

\* The frame is one decode_board_state must reject.
Rejected(data) ==
    IF Len(data) < 38 THEN TRUE ELSE data[1] # 1 \/ data[2] # 36

Returned(r) == cmd.returned = r

\* The last command is suspended in its write.
InWrite ==
    /\ cmd.write = "pending"
    /\ cmd.returned = "unset"
    /\ pc[Commander] = "cmd_write"
    /\ op[Commander] = cmd.name

\* C12: BleakTransport.send_command called while the transport is not
\* connected returns false and performs no write; called while connected it
\* performs exactly one write, of the frame it was given, and returns true if
\* the write succeeded and false if it raised.
C12_SendCommand ==
    cmd.name = "send_command" =>
        IF ~cmd.connected
        THEN cmd.writes = 0 /\ cmd.write = "none" /\ Returned("false")
        ELSE /\ cmd.writes = 1
             /\ cmd.frame = cmd.arg
             /\ cmd.client # NoClient
             /\ \/ InWrite
                \/ cmd.write = "ok" /\ Returned("true")
                \/ cmd.write = "error" /\ Returned("false")

\* C12 witness: send_command was called while connected, its one write raised
\* and it returned false.
C12_Witness ==
    /\ cmd.name = "send_command"
    /\ cmd.connected
    /\ cmd.writes = 1
    /\ cmd.write = "error"
    /\ Returned("false")
    /\ result[Commander] = <<"send_command", "false">>

\* The FEN passes normalization, chess.Board parsing and board encoding.
PassesChecks(fen, force) ==
    /\ LegalFen(fen)
    /\ encode_set_move_board_command(normalize_fen(fen).fen, force).ok

\* C14: set_position returns false and writes nothing when the driver is not
\* connected or the FEN fails normalization, chess.Board parsing or board
\* encoding; a write happens only after all the checks passed, and it is the
\* write of the encoded normalized FEN.
C14_SetPositionValidates ==
    cmd.name = "set_position" =>
        LET fen == cmd.arg[1]
            force == cmd.arg[2]
        IN  IF ~cmd.connected \/ ~PassesChecks(fen, force)
            THEN cmd.writes = 0 /\ cmd.write = "none" /\ Returned("false")
            ELSE /\ cmd.writes = 1
                 /\ cmd.frame = encode_set_move_board_command(normalize_fen(fen).fen, force).val
                 /\ \/ InWrite
                    \/ cmd.write = "ok" /\ Returned("true")
                    \/ cmd.write = "error" /\ Returned("false")

\* C14 witness: set_position was called on a connected driver with a FEN that
\* normalizes but that chess.Board rejects; nothing was written and it
\* returned false.
C14_Witness ==
    /\ cmd.name = "set_position"
    /\ cmd.connected
    /\ normalize_fen(cmd.arg[1]).ok
    /\ ~LegalFen(cmd.arg[1])
    /\ cmd.writes = 0
    /\ Returned("false")
    /\ result[Commander] = <<"set_position", "false">>

\* the commands of C15, and those of them that return a result
GuardedCommands ==
    {"set_leds", "clear_leds", "beep", "set_buzzer_enabled"} \cup Requests

\* C15: called while the driver is not connected, none of set_leds,
\* clear_leds, beep, set_buzzer_enabled, request_battery_level,
\* request_firmware_version and request_piece_state writes anything, and the
\* four that return a result return false.
C15_GuardedWhenDisconnected ==
    (cmd.name \in GuardedCommands /\ ~cmd.connected) =>
        /\ cmd.writes = 0
        /\ cmd.write = "none"
        /\ Returned(IF cmd.name \in Requests THEN "none" ELSE "false")

\* C15 witness: set_leds was called with a square that cannot be encoded
\* while the driver was not connected; nothing was written and it returned
\* false.
C15_Witness ==
    /\ cmd.name = "set_leds"
    /\ ~cmd.connected
    /\ ~LedCommands[cmd.arg].ok
    /\ cmd.writes = 0
    /\ Returned("false")
    /\ result[Commander] = <<"set_leds", "false">>

\* C21 as stated: the piece-position table has exactly 34 entries in every
\* reachable state, from construction onward, and a command-response
\* notification either replaces all 34 entries or leaves the table untouched.
C21_TableAlways34 ==
    /\ Len(piecePositions) = 34
    /\ lastResponse # NoFrame =>
          \/ piecePositions = prevPieces
          \/ piecePositions = decode_move_piece_state(lastResponse)

\* The part of C21 that the code keeps: the table is empty until the first
\* piece-state frame and has 34 entries from then on, and a notification
\* replaces the whole table or leaves it untouched.
C21_EmptyOrWhole ==
    /\ Len(piecePositions) \in {0, 34}
    /\ Len(prevPieces) = 34 => Len(piecePositions) = 34
    /\ lastResponse # NoFrame =>
          \/ piecePositions = prevPieces
          \/ /\ Len(lastResponse) >= 139
             /\ piecePositions = decode_move_piece_state(lastResponse)

\* C23: a command-response frame of at least 5 bytes with tag 0x41 and
\* subtype 0x0C decodes to a power level whose charging flag is true exactly
\* when byte 3 is 1 and whose percentage is byte 4, and the driver that
\* received it holds both values in its cached charging flag and battery level.
C23_PowerLevelCached ==
    (/\ lastResponse # NoFrame
     /\ Len(lastResponse) >= 5
     /\ lastResponse[1] = 65
     /\ lastResponse[3] = 12) =>
        /\ decode_power_level(lastResponse) =
              [ok |-> TRUE, charging |-> lastResponse[4] = 1,
               percentage |-> lastResponse[5]]
        /\ isCharging = IF lastResponse[4] = 1 THEN "true" ELSE "false"
        /\ batteryLevel = lastResponse[5]

\* C23 witness: the frame 41 03 0C 01 50 was received after a frame that had
\* set other values, and the driver caches charging and 80 percent.
C23_Witness ==
    /\ lastResponse = <<65, 3, 12, 1, 80>>
    /\ isCharging = "true"
    /\ batteryLevel = 80
    /\ Len(piecePositions) = 34

\* The square name is a file a..h (in either case) followed by a rank 1..8.
NamedSquare(sq) ==
    /\ Len(sq) = 2
    /\ \E f \in 1..8 : sq[1] = Files[f] \/ sq[1] = UpperFiles[f]
    /\ \E k \in 1..8 : sq[2] = DigitChars[k + 1]

\* The square name is file f (a = 0) and rank k.
Names(sq, f, k) ==
    /\ sq[1] = Files[f + 1] \/ sq[1] = UpperFiles[f + 1]
    /\ sq[2] = DigitChars[k + 1]

\* the nibble of (row, column) in a frame laid out as the board encoding is
LedNibble(frame, row, column) ==
    LET byte == frame[row * 4 + (3 - (column \div 2)) + 2 + 1]
    IN  IF column % 2 = 0 THEN byte \div 16 ELSE byte % 16

\* C22: for squares named by file and rank, encode_led_command_from_squares
\* returns a 34-byte frame with bytes 0x43 0x20 in front whose nibble at row
\* 7-(k-1), column f is the color for every named square (file f, rank k),
\* with every other nibble of the 32 payload bytes 0.
C22_LedFrameLayout ==
    (/\ codec.fn = "led"
     /\ \A i \in 1..Len(codec.arg) : NamedSquare(codec.arg[i])) =>
        /\ codec.out.ok
        /\ Len(codec.out.val) = 34
        /\ codec.out.val[1] = 67
        /\ codec.out.val[2] = 32
        /\ \A row \in 0..7 : \A column \in 0..7 :
              LedNibble(codec.out.val, row, column) =
                IF \E i \in 1..Len(codec.arg) : \E k \in 1..8 :
                     Names(codec.arg[i], column, k) /\ row = 7 - (k - 1)
                THEN codec.color
                ELSE 0

\* C22 witness: e2 and e4 were encoded in red: bytes 19 and 27 of the frame
\* hold 0x10 and the other 30 payload bytes are 0.
C22_Witness ==
    /\ codec.fn = "led"
    /\ codec.arg = <<<<"e", "2">>, <<"e", "4">>>>
    /\ codec.color = 1
    /\ codec.out.ok
    /\ codec.out.val =
         [i \in 1..34 |-> IF i = 1 THEN 67 ELSE IF i = 2 THEN 32
                          ELSE IF i \in {20, 28} THEN 16 ELSE 0]

\* C24 as stated: at most one auto-reconnect loop task is alive at any time,
\* and every loop task that is alive is the one DriverManager tracks in
\* _auto_connect_task.
C24_OneLoopAlive ==
    /\ Cardinality({t \in Loops : Alive(t)}) <= 1
    /\ \A t \in Loops : Alive(t) => mgrTask = t

\* No set_auto_connect call (made directly or by shutdown()) is in progress.
NoSetAutoRunning == \A c \in Callers : op[c] \notin {"set_auto", "shutdown"}

\* C25 as stated, read in the code's favour: whenever no set_auto_connect
\* call is in progress and no loop task has died of an error, the auto-connect
\* flag is true if and only if an auto-reconnect loop task is running.
C25_FlagMatchesLoop ==
    (NoSetAutoRunning /\ \A t \in Loops : pc[t] # "failed") =>
        (enabled <=> \E t \in Loops : Alive(t))

\* C26 as stated: when the cancellation of a loop task suspended inside its
\* connect attempt has completed, the transport is fully initialised or
\* disconnected.
C26_CancelLeavesNoHalfSetup ==
    [][\A t \in Loops :
          (pc[t] \in ConnectPcs /\ pc'[t] = "cancelled") =>
              (FullyInitialised' \/ ~is_connected')]_vars

\* Loop task t starts a call of driver.connect() in this step.
LoopConnects(t) == pc[t] \notin ConnectPcs /\ pc'[t] \in ConnectPcs

\* C27: the auto-reconnect loop calls the driver's connect only while holding
\* the lock and only if, at that moment, auto-connect is enabled and the
\* driver reports disconnected; it holds the lock for as long as it is inside
\* the call.
C27_LoopConnectsGuarded ==
    [][\A t \in Loops :
          /\ LoopConnects(t) => (lockHolder' = t /\ enabled /\ ~is_connected)
          /\ pc'[t] \in ConnectPcs => lockHolder' = t]_vars

\* C27 witness: a loop that waited for the lock found the driver connected
\* once it held it, by an explicit connect() that returned true, and went to
\* its retry sleep without connecting.
C27_Witness ==
    \E t \in Loops : \E c \in Callers :
        /\ lastRound[t] = "skip_locked"
        /\ pc[t] = "sleep"
        /\ enabled
        /\ is_connected
        /\ result[c] = <<"connect", "true">>

\* Loop task t decides in this step whether to attempt a connect or to skip
\* it, and goes on to the attempt or to the retry sleep.
LoopDecides(t) ==
    /\ pc[t] \in {"start", "sleep", "lockwait"}
    /\ pc'[t] \in ConnectPcs \cup {"sleep"}

\* C28: between two successive rounds of one auto-reconnect loop (a connect
\* attempt, or a round skipped because the driver was connected) one full
\* retry sleep has ended, whatever the outcome of the earlier round.
C28_SleepBetweenAttempts ==
    [][\A t \in Loops : LoopDecides(t) => Rested(t) \in {"none", "slept"}]_vars

\* C28 witness: a loop that has made a round and slept its retry interval
\* since is waiting for the lock for its next attempt.
C28_Witness ==
    \E t \in Loops : pc[t] = "lockwait" /\ lastRound[t] = "slept" /\ enabled

\* A step of task t inside BleakTransport.connect() starts a write of a command
\* frame (send_command passed its connected guard) or completes one.
SetupWriteStarts(t) ==
    pc'[t] \in {"init_write", "cfg_write"} /\ pc[t] # pc'[t]
SetupWriteSucceeds == Len(setupLog') > Len(setupLog) /\ setupLog'[Len(setupLog')] \in {"init", "config"}

BothSubscribed(log) == Len(log) >= 2 /\ SubSeq(log, 1, 2) = <<"fen", "cmd">>

\* The orders of successful setup steps a connect() that returns true can leave.
SetupOrders4 == <<"fen", "cmd", "init", "config">>

SetupOrders ==
    {<<"fen", "cmd">>, <<"fen", "cmd", "init">>, <<"fen", "cmd", "config">>,
     <<"fen", "cmd", "init", "config">>}

LinkComesUp == ~is_connected /\ is_connected'

\* C30: a spontaneous link drop sets the transport's connected flag to false and
\* starts nothing in any task; after a drop, and until somebody calls connect(),
\* the link stays disconnected once set_auto_connect(False) has returned and
\* auto-connect stayed off, and otherwise it is opened again only by an
\* auto-reconnect loop that holds the lock.
C30_ReconnectOnlyByLoop ==
    [][/\ LinkDrop => ~connected' /\ ~is_connected' /\ pc' = pc
       /\ dropped /\ LinkComesUp =>
              /\ ~disabledSince
              /\ \E t \in Loops : pc[t] = "open" /\ lockHolder = t]_vars

\* The step is a notification on the board-state channel that changes nothing
\* in the transport or the driver and reaches no listener.
FenStepChangesNothing ==
    /\ ~forwarded'
    /\ calls' = NoCalls
    /\ UNCHANGED <<tBattery, currentFen, currentPosition, batteryLevel>>

\* C31: on the board-state channel the transport passes a frame to the
\* board-state listeners if and only if its first byte is the BOARD_STATE tag
\* 0x01; a frame with the BATTERY_LEVEL tag 0x2A and at least 3 bytes sets the
\* transport's cached battery level to byte 2, reaches no listener and leaves
\* the driver's cache alone; an empty frame or a frame with any other tag
\* changes nothing.
C31_FenChannelDispatch ==
    [][LET data == lastFrame'
       IN  IF data = <<>> THEN FenStepChangesNothing
           ELSE /\ forwarded' <=> data[1] = 1
                /\ (data[1] = 42 /\ Len(data) >= 3) =>
                       /\ tBattery' = data[3]
                       /\ calls' = NoCalls
                       /\ UNCHANGED <<currentFen, currentPosition, batteryLevel>>
                /\ data[1] \notin {1, 42} => FenStepChangesNothing]_vars

\* C31 witness: after a board was received, the battery frame 2A 00 50 arrived:
\* the transport caches 80, no listener was reached, the driver's cached
\* battery level is still absent and its cached FEN is the board's.
C31_Witness ==
    /\ lastFrame = <<42, 0, 80>>
    /\ tBattery = 80
    /\ ~forwarded
    /\ batteryLevel = NoLevel
    /\ currentFen # NoFen

\* C32 as stated, first sentence: when the most recent battery or power-level
\* frame is a battery frame of the board-state channel with level L,
\* get_status().battery_level is L, whatever frames arrived before it.
C32_LatestBatteryFrameReported ==
    lastLevel.kind = "battery" => StatusBatteryLevel = lastLevel.level

\* C32 as stated, in general: the reported battery level is the one of the
\* most recent battery or power-level frame.
C32_LatestLevelReported ==
    lastLevel.kind # "none" => StatusBatteryLevel = lastLevel.level

\* What the code keeps of C32: the reported level is the level of the last
\* power-level frame unless there was none or it was 0, and then the level of
\* the last battery frame (absent if there was none).
C32_PowerFrameShadowsBattery ==
    /\ lastLevel.kind = "power" /\ lastLevel.level # 0 =>
           StatusBatteryLevel = lastLevel.level
    /\ StatusBatteryLevel \in {batteryLevel, tBattery}
    /\ batteryLevel \notin {NoLevel, 0} => StatusBatteryLevel = batteryLevel

\* The frame kinds of the command-response channel by their header: tag 0x41
\* and the subtype of the kind, with the minimum length of the kind.
IsFirmwareFrame(data) ==
    Len(data) >= 4 /\ data[1] = 65 /\ data[3] = 9

IsPieceStateFrame(data) ==
    Len(data) >= 139 /\ data[1] = 65 /\ data[3] = 11

\* The step sets the cached fields of one decoder and leaves the others.
OnlyFirmwareSet(fw) ==
    firmwareVersion' = fw /\ UNCHANGED <<isCharging, batteryLevel, piecePositions>>

OnlyPowerSet(power) ==
    /\ isCharging' = (IF power.charging THEN "true" ELSE "false")
    /\ batteryLevel' = power.percentage
    /\ UNCHANGED <<firmwareVersion, piecePositions>>

OnlyPiecesSet(pieces) ==
    piecePositions' = pieces /\ UNCHANGED <<firmwareVersion, isCharging, batteryLevel>>

NoFieldSet == UNCHANGED <<firmwareVersion, isCharging, batteryLevel, piecePositions>>

\* The decoders are tried in the order firmware version, power level, piece
\* state, and the first that accepts the frame sets its own fields only.
FirstMatchDecides(data) ==
    LET fw == decode_firmware_version(data)
        power == decode_power_level(data)
        pieces == decode_move_piece_state(data)
    IN  /\ fw # NoText => OnlyFirmwareSet(fw)
        /\ fw = NoText /\ power.ok => OnlyPowerSet(power)
        /\ fw = NoText /\ ~power.ok /\ pieces # <<>> => OnlyPiecesSet(pieces)

\* C33 as stated: on the command-response channel the first of the decoders
\* firmware version, power level, piece state that matches the frame updates
\* only its own cached field, and a frame that is none of the three frame
\* kinds changes no cached field.
C33_ResponseDispatch ==
    [][LET data == lastResponse'
       IN  /\ FirstMatchDecides(data)
           /\ (~IsFirmwareFrame(data) /\ ~IsPowerFrame(data)
                  /\ ~IsPieceStateFrame(data)) => NoFieldSet]_vars

\* What the code keeps of C33: the first decoder that accepts the frame sets
\* its own fields only, and a frame that no decoder accepts changes no field.
C33_FirstMatchOnly ==
    [][LET data == lastResponse'
       IN  /\ FirstMatchDecides(data)
           /\ (/\ decode_firmware_version(data) = NoText
               /\ ~decode_power_level(data).ok
               /\ decode_move_piece_state(data) = <<>>) => NoFieldSet]_vars

\* C34 as stated: decode_move_piece_state returns absent unless the frame has
\* the header tag 0x41, the subtype 0x0B and at least 139 bytes, and for a
\* frame that has all three it returns 34 slots read as 4-byte records from
\* offset 4.
C34_PieceStateValidated ==
    lastResponse # NoFrame =>
        LET pieces == decode_move_piece_state(lastResponse)
        IN  IF IsPieceStateFrame(lastResponse)
            THEN /\ Len(pieces) = 34
                 /\ \A idx \in 0..33 :
                        pieces[idx + 1] = <<lastResponse[4 * idx + 5],
                                            lastResponse[4 * idx + 6],
                                            lastResponse[4 * idx + 7]>>
            ELSE pieces = <<>>

\* What the code keeps of C34: the length alone decides, and a frame of at
\* least 139 bytes yields 34 slots read as 4-byte records from offset 4.
C34_LengthOnly ==
    lastResponse # NoFrame =>
        LET pieces == decode_move_piece_state(lastResponse)
        IN  IF Len(lastResponse) >= 139
            THEN /\ Len(pieces) = 34
                 /\ \A idx \in 0..33 :
                        pieces[idx + 1] = <<lastResponse[4 * idx + 5],
                                            lastResponse[4 * idx + 6],
                                            lastResponse[4 * idx + 7]>>
            ELSE pieces = <<>>

\* C37: in every reachable driver state the cached FEN and the cached position
\* agree: both are absent, or the cached position is the board parsed from
\* the cached FEN, so that a status query never pairs a FEN with the position
\* of an older notification.
C37_FenAndPositionAgree == currentPosition = currentFen

\* C37 witness: a second board, different from the first, was received (with a
\* raising listener registered): FEN and position are both the new board's.
C37_Witness ==
    /\ LastChanged
    /\ prevFen # NoFen
    /\ currentFen = LastFullFen
    /\ currentPosition = LastFullFen
    /\ listeners[NumListeners] = "raises"

\* The driver's cached fields that responses fill.
ResponseCache == <<firmwareVersion, batteryLevel, isCharging, piecePositions>>

\* The step is the processing of a notification of the command-response
\* channel: no task moves, no command starts or ends, and the frame is
\* recorded.
ResponseStep(data) ==
    /\ lastResponse' = data
    /\ UNCHANGED <<pc, op, result, cmd, tVars, lockVars, lastFrame, tBattery>>

C35_AnswerArrives ==
    /\ cmd.name = "request_battery_level"
    /\ cmd.write = "ok"
    /\ batteryLevel = 80
    /\ lastResponse = <<65, 3, 12, 1, 80>>

\* The driver's cached state as get_status() and the accessors report it.
DriverCache ==
    <<currentFen, currentPosition, firmwareVersion, batteryLevel, isCharging,
      piecePositions>>

\* What the command operations work on: the tasks' positions and results, the
\* command in progress, the manager's flag and loop, the lock and the link.
CommandState == <<taskVars, cmd, mgrVars, lockVars, tVars>>

\* C36: no command operation changes the driver's cached state: every step
\* of connect, disconnect, set_position, set_leds, clear_leds, beep,
\* set_buzzer_enabled, set_auto_connect and shutdown (a call, a resumption of
\* a task, a write that ends, a link that drops) leaves the cached FEN,
\* position, firmware version, battery level, charging flag and piece table
\* unchanged, so what was cached before a disconnect is still cached after
\* the reconnect.
C36_CommandsKeepCache ==
    [][CommandState' # CommandState => UNCHANGED DriverCache]_vars

\* C36 witness: connect() has opened a new link and has subscribed to nothing
\* yet, so no notification has arrived on this link: the FEN, the position and
\* the battery level were cached during an earlier connection, which a
\* disconnect ended, and they are still there.
C36_Witness ==
    /\ client # NoClient
    /\ client \in linkUp
    /\ setupLog = <<>>
    /\ op[Commander] = "connect"
    /\ pc[Commander] = "mtu"
    /\ currentFen # NoFen
    /\ currentPosition = currentFen
    /\ batteryLevel = 80

====
